---- MODULE Spec2Model ----
(***************************************************************************)
(* Model of crashdec (src/cffdump/crashdec.c): the devcoredump decoder of  *)
(* envytools.  The decoder reads a line-oriented dump, dispatches each     *)
(* top-level line to a section decoder, and after the registers section    *)
(* reconstructs the in-flight command stream from the ring buffer.         *)
(*                                                                         *)
(* 32-bit unsigned values are records [hi, lo] of two 16-bit halves, so    *)
(* that the C arithmetic keeps its width (everything is taken mod 2^32).   *)
(***************************************************************************)
EXTENDS Integers, Sequences, FiniteSets, TLC

(***************************************************************************)
(* Bounds of the model.                                                    *)
(***************************************************************************)
\* number of lines the input stream may hold
MaxLines == 7
\* number of popline()/pushline() calls of the line reader harness
MaxCalls == 5
\* number of lines of the input stream that holds every kind of section
MaxSectionLines == 6

\* the longest word sequence handed to the payload encoder
MaxWords == 2

\* the most options on the command line, and the most lines of the input of
\* a run started from main()
MaxArgs == 2

MaxMainLines == 3

\* the most lines of an input made of ring records
MaxRingLines == 5

\* the most lines read after the first run of the reconstructor
MaxTrackerLines == 4

\* the most lines of an input of indexed-registers records
MaxSeqLines == 5

(***************************************************************************)
(* 32-bit unsigned arithmetic (uint32_t).                                  *)
(***************************************************************************)
Half == 65536

U32(n) == [hi |-> n \div Half, lo |-> n % Half]

Zero32 == U32(0)

MaxU32 == [hi |-> Half - 1, lo |-> Half - 1]

\* a + b mod 2^32
Add32(a, b) ==
  LET lo == a.lo + b.lo
      hi == a.hi + b.hi + (lo \div Half)
  IN  [hi |-> hi % Half, lo |-> lo % Half]

\* unary minus on an unsigned value: 2^32 - a mod 2^32
Neg32(a) == Add32([hi |-> Half - 1 - a.hi, lo |-> Half - 1 - a.lo], U32(1))

\* conversion of a C int in -2^31 .. 2^31-1 to unsigned
FromInt(i) == IF i >= 0 THEN U32(i) ELSE Neg32(U32(-i))

\* a >> 2, as a natural number (always below 2^30)
Shr2(a) == a.hi * (Half \div 4) + (a.lo \div 4)

\* a >> 16
Shr16(a) == [hi |-> 0, lo |-> a.hi]

RECURSIVE TimesPow2Mod(_, _, _)
\* (r * 2^k) % c for r < c < 2^30
TimesPow2Mod(r, k, c) ==
  IF k = 0 THEN r ELSE TimesPow2Mod((2 * r) % c, k - 1, c)

\* a % c for a natural number 1 <= c < 2^30
Mod32(a, c) == (TimesPow2Mod(a.hi % c, 16, c) + (a.lo % c)) % c

\* bit n of a
Bit32(a, n) ==
  IF n >= 16 THEN (a.hi \div (2 ^ (n - 16))) % 2 ELSE (a.lo \div (2 ^ n)) % 2

\* the bits a[hiBit .. loBit] as a natural number (at most 30 bits wide)
RECURSIVE Bits32(_, _, _)
Bits32(a, hiBit, loBit) ==
  IF hiBit < loBit THEN 0
  ELSE 2 * Bits32(a, hiBit, loBit + 1) + Bit32(a, loBit)

RECURSIVE PopCount(_)
PopCount(n) == IF n = 0 THEN 0 ELSE (n % 2) + PopCount(n \div 2)

(***************************************************************************)
(* 64-bit unsigned values (uint64_t) are records [hi, lo] of two 32-bit    *)
(* values.                                                                 *)
(***************************************************************************)
U64(h, l) == [hi |-> h, lo |-> l]

Zero64 == U64(Zero32, Zero32)

\* (a * m + d) mod 2^32 together with the carry out, for small m and d
MulAdd32(a, m, d) ==
  LET lo == a.lo * m + d
      hi == a.hi * m + (lo \div Half)
  IN  [val |-> [hi |-> hi % Half, lo |-> lo % Half], carry |-> hi \div Half]

\* (x * m + d) mod 2^64
MulAdd64(x, m, d) ==
  LET l == MulAdd32(x.lo, m, d)
      h == MulAdd32(x.hi, m, l.carry)
  IN  U64(h.val, l.val)

\* whether x * m + d is 2^64 or more
Overflow64(x, m, d) ==
  MulAdd32(x.hi, m, MulAdd32(x.lo, m, d).carry).carry > 0

\* ULONG_MAX, LONG_MAX and LONG_MIN of a 64-bit long
ULongMax == U64(MaxU32, MaxU32)

LongMax == U64([hi |-> (Half \div 2) - 1, lo |-> Half - 1], MaxU32)

LongMin == U64([hi |-> Half \div 2, lo |-> 0], Zero32)

(***************************************************************************)
(* C strings.  A line is a TLA+ string; the character at index i (from 1)  *)
(* is a one-character string, and the terminating NUL is "".               *)
(***************************************************************************)
NUL == ""

At(s, i) == IF i <= Len(s) THEN SubSeq(s, i, i) ELSE NUL

\* A character is a byte of the input.  The tables below hold, in the order
\* of their codes, the bytes 32 .. 95 and 97 .. 126, the control characters
\* 1 .. 8 and 14 .. 31, and the bytes 128 .. 255; the tab, the newline, the
\* vertical tab, the form feed, the carriage return and DEL stand alone.
\* The byte 96 cannot be written in a string of the model, so no line of
\* the model holds it.
AsciiLow == " !\"#$%&'()*+,-./0123456789:;<=>?@ABCDEFGHIJKLMNOPQRSTUVWXYZ[\\]^_"

AsciiHigh == "abcdefghijklmnopqrstuvwxyz{|}~"

Ctrl1 == ""

Ctrl14 == ""

HighBytes == " ¡¢£¤¥¦§¨©ª«¬­®¯°±²³´µ¶·¸¹º»¼½¾¿ÀÁÂÃÄÅÆÇÈÉÊËÌÍÎÏÐÑÒÓÔÕÖ×ØÙÚÛÜÝÞßàáâãäåæçèéêëìíîïðñòóôõö÷øùúûüýþÿ"

VT == ""

DEL == ""

\* whether the character c is in the table tab, and its index there
InTab(tab, c) == \E k \in 1..Len(tab) : SubSeq(tab, k, k) = c

IndexIn(tab, c) == CHOOSE k \in 1..Len(tab) : SubSeq(tab, k, k) = c

\* whether the characters of the table tab differ from one another.  The
\* bytes 128 .. 255 are told apart only when the module is read in an
\* encoding that keeps them apart (UTF-8); in any other the table is
\* unusable and such a byte has no code in the model
Distinct(tab) ==
  \A j, k \in 1..Len(tab) : SubSeq(tab, j, j) = SubSeq(tab, k, k) => j = k

\* the value of the character c as an int: char is signed, so the bytes
\* 128 .. 255 are -128 .. -1
Ord(c) ==
  IF c = NUL THEN 0
  ELSE IF c = "\t" THEN 9
  ELSE IF c = "\n" THEN 10
  ELSE IF c = "\f" THEN 12
  ELSE IF c = "\r" THEN 13
  ELSE IF InTab(AsciiLow, c) THEN 31 + IndexIn(AsciiLow, c)
  ELSE IF InTab(AsciiHigh, c) THEN 96 + IndexIn(AsciiHigh, c)
  ELSE IF c = VT THEN 11
  ELSE IF c = DEL THEN 127
  ELSE IF InTab(Ctrl1, c) THEN IndexIn(Ctrl1, c)
  ELSE IF InTab(Ctrl14, c) THEN 13 + IndexIn(Ctrl14, c)
  ELSE IF Distinct(HighBytes) THEN IndexIn(HighBytes, c) - 129
  ELSE IndexIn("", c)

\* isspace(): the space, \t, \n, the vertical tab, \f and \r
IsSpace(c) == c \in {" ", "\n", "\t", "\f", "\r", VT}

HexDigits == "0123456789abcdef"

\* tolower() of a hexadecimal digit
Lower(c) ==
  IF c \in {"A", "B", "C", "D", "E", "F"}
  THEN SubSeq(HexDigits, Ord(c) - 54, Ord(c) - 54) ELSE c

\* the value of the lower-case character lc as a digit of the base, or -1
DigitOf(lc, base) ==
  IF \E k \in 1..base : SubSeq(HexDigits, k, k) = lc
  THEN (CHOOSE k \in 1..base : SubSeq(HexDigits, k, k) = lc) - 1
  ELSE -1

\* the value of c as a digit of the base, or -1
DigitVal(c, base) == DigitOf(Lower(c), base)

\* strstr(line, start) == line
startswith(line, start) ==
  /\ Len(start) <= Len(line)
  /\ SubSeq(line, 1, Len(start)) = start

(***************************************************************************)
(* vsscanf(), for the directives the decoder's patterns use: white space,  *)
(* literal characters and the conversions %d %u %x %lx %ms.  The result is *)
(* [n, vals]: n is the return value (the number of fields assigned, or -1  *)
(* for EOF) and vals the assigned fields in order.  A 32-bit field is the  *)
(* low word of the number read, a %lx field is a 64-bit value, a %ms field *)
(* is a string.                                                            *)
(***************************************************************************)
RECURSIVE SkipSpace(_, _)
SkipSpace(s, i) == IF IsSpace(At(s, i)) THEN SkipSpace(s, i + 1) ELSE i

Not32(a) == [hi |-> Half - 1 - a.hi, lo |-> Half - 1 - a.lo]

Neg64(x) ==
  U64(IF x.lo = Zero32 THEN Neg32(x.hi) ELSE Not32(x.hi), Neg32(x.lo))

\* the number read so far: its value mod 2^64 and whether it passed 2^64 - 1
NoAcc == [val |-> Zero64, ovf |-> FALSE]

\* acc after the digit d of the base; once the number has overflowed,
\* strtoul() only goes on consuming digits
AddDigit(acc, base, d) ==
  [val |-> MulAdd64(acc.val, base, d), ovf |-> Overflow64(acc.val, base, d)]

RECURSIVE ScanDigits(_, _, _, _, _)
\* the digit d found at index i is added to acc, or ends the number
ScanDigit(s, i, base, acc, nd, d) ==
  IF d < 0 THEN [next |-> i, val |-> acc.val, ovf |-> acc.ovf, nd |-> nd]
  ELSE IF acc.ovf THEN ScanDigits(s, i + 1, base, acc, nd + 1)
  ELSE ScanDigits(s, i + 1, base, AddDigit(acc, base, d), nd + 1)

\* the run of digits at index i: [next, val, ovf, nd], nd the number of
\* digits
ScanDigits(s, i, base, acc, nd) ==
  ScanDigit(s, i, base, acc, nd, DigitVal(At(s, i), base))

\* the index of the first digit: after the 0x of a base-16 number, which is
\* consumed whether or not a digit follows it
SkipPrefix(s, i, base) ==
  IF /\ base = 16
     /\ At(s, i) = "0"
     /\ At(s, i + 1) \in {"x", "X"}
  THEN i + 2 ELSE i

\* the index after an optional sign
SkipSign(s, i) == IF At(s, i) \in {"-", "+"} THEN i + 1 ELSE i

\* strtoul(): ULONG_MAX on overflow, else the value, negated when neg
Unsigned(neg, r) ==
  IF r.ovf THEN ULongMax ELSE IF neg THEN Neg64(r.val) ELSE r.val

\* strtol(): LONG_MIN or LONG_MAX when the value is out of range
SignedLong(neg, r) ==
  IF r.ovf \/ r.val.hi.hi >= Half \div 2
  THEN IF neg THEN LongMin ELSE LongMax
  ELSE IF neg THEN Neg64(r.val) ELSE r.val

\* the number whose digits are r, read as a long for %d (signed) and as an
\* unsigned long otherwise
Signed(neg, signed, r) ==
  [ok |-> r.nd > 0, next |-> r.next,
   val |-> IF signed THEN SignedLong(neg, r) ELSE Unsigned(neg, r)]

\* the digits of the number whose sign ends before index i0 and whose
\* prefix ends before index p: the 0 of a 0x prefix counts as a digit
ScanFrom(s, i0, p, base) ==
  ScanDigits(s, p, base, NoAcc, IF p > i0 THEN 1 ELSE 0)

\* an optionally signed number (with an optional 0x for base 16) at index i
ScanNumber(s, i, base, signed) ==
  Signed(At(s, i) = "-", signed,
         ScanFrom(s, SkipSign(s, i), SkipPrefix(s, SkipSign(s, i), base),
                  base))

RECURSIVE ScanWord(_, _)
\* index after the run of non-white-space characters that starts at i
ScanWord(s, i) ==
  IF At(s, i) = NUL \/ IsSpace(At(s, i)) THEN i ELSE ScanWord(s, i + 1)

ScanEnd(vals, inputFailure) ==
  [n |-> IF inputFailure /\ Len(vals) = 0 THEN -1 ELSE Len(vals), vals |-> vals]

RECURSIVE Scan(_, _, _, _, _)
\* %ms: the word s[i0 .. e-1] is assigned; j is the index after the directive
ScanString(s, i0, e, fmt, j, vals) ==
  Scan(s, e, fmt, j, Append(vals, SubSeq(s, i0, e - 1)))

\* %d %u %x %lx: the number r is assigned, or a matching failure
ScanInteger(s, r, fmt, j, long, vals) ==
  IF ~r.ok THEN ScanEnd(vals, FALSE)
  ELSE Scan(s, r.next, fmt, j, Append(vals, IF long THEN r.val ELSE r.val.lo))

\* the conversion at fmt[jc] with length modifier mod, the input being at i0
\* after its leading white space
ScanConversion(s, i0, fmt, jc, mod, vals) ==
  IF At(s, i0) = NUL THEN ScanEnd(vals, TRUE)
  ELSE IF At(fmt, jc) = "s"
  THEN ScanString(s, i0, ScanWord(s, i0), fmt, jc + 1, vals)
  ELSE ScanInteger(s, ScanNumber(s, i0, IF At(fmt, jc) = "x" THEN 16 ELSE 10,
                                  At(fmt, jc) = "d"),
                   fmt, jc + 1, mod = "l", vals)

\* the directive that starts with the character f = fmt[j]
ScanDirective(s, i, fmt, j, vals, f) ==
  IF f = NUL THEN ScanEnd(vals, FALSE)
  ELSE IF IsSpace(f) THEN Scan(s, SkipSpace(s, i), fmt, j + 1, vals)
  ELSE IF f # "%" THEN
    IF At(s, i) = NUL THEN ScanEnd(vals, TRUE)
    ELSE IF At(s, i) = f THEN Scan(s, i + 1, fmt, j + 1, vals)
    ELSE ScanEnd(vals, FALSE)
  ELSE IF At(fmt, j + 1) \in {"l", "m"}
  THEN ScanConversion(s, SkipSpace(s, i), fmt, j + 2, At(fmt, j + 1), vals)
  ELSE ScanConversion(s, SkipSpace(s, i), fmt, j + 1, NUL, vals)

Scan(s, i, fmt, j, vals) == ScanDirective(s, i, fmt, j, vals, At(fmt, j))

vsscanf(line, fmt) == Scan(line, 1, fmt, 1, <<>>)

(***************************************************************************)
(* parseline(): the number of conversions the pattern is expected to       *)
(* yield, as the loop over the pattern counts it (i, l are 0-based).       *)
(***************************************************************************)
RECURSIVE CountConversions(_, _, _, _)
CountConversions(fmt, i, n, l) ==
  IF i >= Len(fmt) THEN n
  ELSE IF At(fmt, i + 1) = "%"
       THEN IF i = l - 1 THEN CountConversions(fmt, i + 1, n - 1, 0)
            ELSE CountConversions(fmt, i + 1, n + 1, i)
       ELSE CountConversions(fmt, i + 1, n, l)

\* the comparison of the scan result r with the expected count n
Parsed(r, n, fmt) == [ok |-> r.n = n, vals |-> r.vals, fmt |-> fmt]

\* parseline(line, fmt, ...): [ok, vals, fmt]; ~ok is the exit(1) of a parse
\* error, whose diagnostic names fmt
parseline(line, fmt) ==
  Parsed(vsscanf(line, fmt), CountConversions(fmt, 0, 0, 0), fmt)

(***************************************************************************)
(* popline_ascii85(): the decoding of the payload line into a buffer of    *)
(* sizedwords zeroed words.  The result is [res, buf]: res is "ok",        *)
(* "abort" (the assertion on the leading space fails) or "ub" (a store     *)
(* past the end of the buffer or a read past the end of the line).  A      *)
(* buffer is a sequence of 32-bit words, word idx of C being buf[idx+1].   *)
(***************************************************************************)
RECURSIVE SkipBlanks(_, _)
SkipBlanks(s, i) == IF At(s, i) = " " THEN SkipBlanks(s, i + 1) ELSE i

\* Accumulate without the offset of the digits
Accumulate_raw(accum, c) ==
  Add32(MulAdd32(accum, 85, 0).val, FromInt(Ord(c)))

\* accum after adding the character c: accum * 85 + (c - '!')
Accumulate(accum, c) ==
  Add32(MulAdd32(accum, 85, 0).val, FromInt(Ord(c) - Ord("!")))

RECURSIVE DecodeGroup(_, _, _, _)
\* the inner for loop: at most 5 characters, stopping at the newline
DecodeGroup(s, i, k, accum) ==
  IF k >= 5 \/ At(s, i) = "\n" \/ i > Len(s) + 1
  THEN [next |-> i, accum |-> accum]
  ELSE DecodeGroup(s, i + 1, k + 1, Accumulate(accum, At(s, i)))

RECURSIVE DecodeWords(_, _, _, _)
\* buf[idx++] = accum for the group g
StoreGroup(s, g, buf, idx) ==
  DecodeWords(s, g.next, [buf EXCEPT ![idx + 1] = g.accum], idx + 1)

\* the outer while loop
DecodeWords(s, i, buf, idx) ==
  IF i > Len(s) + 1 THEN [res |-> "ub", buf |-> buf]
  ELSE IF At(s, i) = "\n" THEN [res |-> "ok", buf |-> buf]
  ELSE IF idx >= Len(buf) THEN [res |-> "ub", buf |-> buf]
  ELSE IF At(s, i) = "z"
       THEN DecodeWords(s, i + 1, [buf EXCEPT ![idx + 1] = Zero32], idx + 1)
       ELSE StoreGroup(s, DecodeGroup(s, i, 0, Zero32), buf, idx)

\* the number of words of calloc(1, 4 * sizedwords): the product is a
\* uint32_t, so the byte count is 4 * sizedwords mod 2^32
CallocWords(sizedwords) ==
  (sizedwords.hi % (Half \div 4)) * Half + sizedwords.lo

\* sizedwords is the 32-bit argument of popline_ascii85()
ascii85(line, sizedwords) ==
  IF At(line, 1) # " " THEN [res |-> "abort", buf |-> <<>>]
  ELSE DecodeWords(line, SkipBlanks(line, 1),
                   [k \in 1..CallocWords(sizedwords) |-> Zero32], 0)

(***************************************************************************)
(* Generation tests and packet headers.                                    *)
(***************************************************************************)
\* a >= n and a < n for a 32-bit a and a natural number n < 2^16
GE32(a, n) == a.hi > 0 \/ a.lo >= n

LT32(a, n) == ~GE32(a, n)

is_a6xx(gpu_id) == GE32(gpu_id, 600) /\ LT32(gpu_id, 700)

is_64b(gpu_id) == GE32(gpu_id, 500)

\* 1 when val has an even number of one bits
pm4_calc_odd_parity_bit(val) == IF PopCount(val) % 2 = 0 THEN 1 ELSE 0

\* type-4 header: tag 0x4 in bits 31..28, odd parity of the count (bits 6..0)
\* in bit 7 and of the register offset (bits 26..8) in bit 27
pkt_is_type4(pkt) ==
  /\ Bits32(pkt, 31, 28) = 4
  /\ Bit32(pkt, 7) = pm4_calc_odd_parity_bit(Bits32(pkt, 6, 0))
  /\ Bit32(pkt, 27) = pm4_calc_odd_parity_bit(Bits32(pkt, 26, 8))

\* type-7 header: tag 0x7 in bits 31..28, bits 27..24 clear, odd parity of
\* the count (bits 13..0) in bit 15 and of the opcode (bits 22..16) in bit 23
pkt_is_type7(pkt) ==
  /\ Bits32(pkt, 31, 28) = 7
  /\ Bits32(pkt, 27, 24) = 0
  /\ Bit32(pkt, 15) = pm4_calc_odd_parity_bit(Bits32(pkt, 13, 0))
  /\ Bit32(pkt, 23) = pm4_calc_odd_parity_bit(Bits32(pkt, 22, 16))

valid_header(gpu_id, pkt) ==
  IF GE32(gpu_id, 500) THEN pkt_is_type4(pkt) \/ pkt_is_type7(pkt) ELSE TRUE

(***************************************************************************)
(* Ring buffer table and the arithmetic of dump_cmdstream.                 *)
(***************************************************************************)
\* ARRAY_SIZE(ringbuffers)
NumRings == 5

lookback == 12

\* a buffer pointer: NULL, or an allocation holding words
NullBuf == [alloc |-> FALSE, words |-> <<>>]

Buf(words) == [alloc |-> TRUE, words |-> words]

\* a zero-initialised entry of ringbuffers[]
NoRing ==
  [iova |-> Zero64, rptr |-> Zero32, wptr |-> Zero32, size |-> Zero32,
   buf |-> NullBuf]

\* mod_add(b, v) for ringszdw >= 1: the sum is formed in unsigned 32 bits
mod_add(ringszdw, b, v) == Mod32(Add32(Add32(U32(ringszdw), b), v), ringszdw)

\* buf[p] is inside the allocation
InBuf(buf, p) == buf.alloc /\ p < Len(buf.words)

RECURSIVE HeaderSearchStay(_, _, _, _, _, _)
\* HeaderSearch that does not advance past the last word it examines
HeaderSearchStay(buf, ringszdw, gpu_id, rptr, idx, reads) ==
  IF idx >= lookback THEN [rptr |-> rptr, reads |-> reads, ub |-> FALSE]
  ELSE IF ~InBuf(buf, rptr)
  THEN [rptr |-> rptr, reads |-> Append(reads, rptr), ub |-> TRUE]
  ELSE IF valid_header(gpu_id, buf.words[rptr + 1]) \/ idx = lookback - 1
  THEN [rptr |-> rptr, reads |-> Append(reads, rptr), ub |-> FALSE]
  ELSE HeaderSearchStay(buf, ringszdw, gpu_id,
                        mod_add(ringszdw, U32(rptr), U32(1)),
                        idx + 1, Append(reads, rptr))

RECURSIVE HeaderSearch(_, _, _, _, _, _)
\* the loop that advances rptr to the first valid header: [rptr, reads, ub],
\* reads being the ring indices whose word was fetched, in order
HeaderSearch(buf, ringszdw, gpu_id, rptr, idx, reads) ==
  IF idx >= lookback THEN [rptr |-> rptr, reads |-> reads, ub |-> FALSE]
  ELSE IF ~InBuf(buf, rptr)
  THEN [rptr |-> rptr, reads |-> Append(reads, rptr), ub |-> TRUE]
  ELSE IF valid_header(gpu_id, buf.words[rptr + 1])
  THEN [rptr |-> rptr, reads |-> Append(reads, rptr), ub |-> FALSE]
  ELSE HeaderSearch(buf, ringszdw, gpu_id, mod_add(ringszdw, U32(rptr), U32(1)),
                    idx + 1, Append(reads, rptr))

\* in_flight with the two pointers exchanged
in_flight_swapped(ringszdw, wptr, rptr) ==
  mod_add(ringszdw, U32(rptr), Neg32(wptr))

\* cmdszdw = mod_add(wptr, -rptr), rptr being the corrected read pointer
in_flight(ringszdw, wptr, rptr) == mod_add(ringszdw, wptr, Neg32(U32(rptr)))

\* CopyIndices without the wrap-around at the end of the ring
CopyIndices_linear(ringszdw, rptr, cmdszdw) ==
  [idx \in 1..cmdszdw |-> rptr + idx - 1]

\* the ring indices the copy loop reads, in order
CopyIndices(ringszdw, rptr, cmdszdw) ==
  [idx \in 1..cmdszdw |-> mod_add(ringszdw, U32(rptr), U32(idx - 1))]

\* the copy loop over the ring indices from: the words copied out
ReconstructCopy(ring, ringszdw, start, h, cmdszdw, from) ==
  IF \E k \in 1..cmdszdw : ~InBuf(ring.buf, from[k])
  THEN [res |-> "ub", ringszdw |-> ringszdw, start |-> start, rptr |-> h.rptr,
        reads |-> h.reads, cmdszdw |-> cmdszdw, from |-> from, buf |-> <<>>]
  ELSE [res |-> "ok", ringszdw |-> ringszdw, start |-> start, rptr |-> h.rptr,
        reads |-> h.reads, cmdszdw |-> cmdszdw, from |-> from,
        buf |-> [k \in 1..cmdszdw |-> ring.buf.words[from[k] + 1]]]

\* cmdszdw words are copied starting at the corrected read pointer h.rptr
ReconstructCount(ring, ringszdw, start, h, cmdszdw) ==
  ReconstructCopy(ring, ringszdw, start, h, cmdszdw,
                  CopyIndices(ringszdw, h.rptr, cmdszdw))

\* the steps after the header search, whose result is h
ReconstructFrom(ring, ringszdw, start, h) ==
  IF h.ub
  THEN [res |-> "ub", ringszdw |-> ringszdw, start |-> start, rptr |-> 0,
        reads |-> h.reads, cmdszdw |-> 0, from |-> <<>>, buf |-> <<>>]
  ELSE ReconstructCount(ring, ringszdw, start, h,
                        in_flight(ringszdw, ring.wptr, h.rptr))

\* the header search from start = mod_add(rptr, -lookback)
ReconstructStart(ring, gpu_id, ringszdw, start) ==
  ReconstructFrom(ring, ringszdw, start,
                  HeaderSearch(ring.buf, ringszdw, gpu_id, start, 0, <<>>))

\* the steps for a ring of ringszdw words
ReconstructSearch(ring, gpu_id, ringszdw) ==
  IF ringszdw = 0
  THEN [res |-> "ub", ringszdw |-> ringszdw, start |-> 0, rptr |-> 0,
        reads |-> <<>>, cmdszdw |-> 0, from |-> <<>>, buf |-> <<>>]
  ELSE ReconstructStart(ring, gpu_id, ringszdw,
                        mod_add(ringszdw, ring.rptr, FromInt(-lookback)))

\* the part of dump_cmdstream run for a ring whose iova matched: the header
\* search, the in-flight count and the copy.  res is "ok" or "ub" (division
\* by a zero capacity, or a read outside the ring's allocation)
Reconstruct(ring, gpu_id) == ReconstructSearch(ring, gpu_id, Shr2(ring.size))

(***************************************************************************)
(* Register State Tracker and register database.                           *)
(***************************************************************************)
\* the registers dump_cmdstream looks up by name, with their indices
RegIndex ==
  [CP_RB_BASE |-> 2048, CP_IB1_BASE |-> 2344, CP_IB1_REM_SIZE |-> 2346,
   CP_IB2_BASE |-> 2352, CP_IB2_REM_SIZE |-> 2354,
   CP_CSQ_IB1_STAT |-> 2361, CP_CSQ_IB2_STAT |-> 2362]

RegNames == DOMAIN RegIndex

\* regbase(name) on a database holding the names db: 0 when name is unknown
regbase(db, name) == IF name \in db THEN RegIndex[name] ELSE 0

NoRegs == [i \in {} |-> Zero32]

reg_set(regs, i, v) == [j \in DOMAIN regs \cup {i} |-> IF j = i THEN v ELSE regs[j]]

reg_val(regs, i) == IF i \in DOMAIN regs THEN regs[i] ELSE Zero32

reset_regs(regs) == NoRegs

\* regval64(name) once the assertion on regbase(name) has passed
regval64(regs, db, gpu_id, name) ==
  LET reg == regbase(db, name)
  IN  U64(IF is_64b(gpu_id) THEN reg_val(regs, reg + 1) ELSE Zero32,
          reg_val(regs, reg))

regval(regs, db, name) == reg_val(regs, regbase(db, name))

(***************************************************************************)
(* The decoder's state.                                                    *)
(***************************************************************************)
VARIABLES
  status,       \* "run", or how the process ended: "exit0" (end of input),
                \* "exit1" (parse error), "abort" (failed assertion),
                \* "signal" / "undefined" (outcomes of undefined behaviour)
  pc,           \* where the decoder is: "decode" is the top-level loop
  nread,        \* number of lines getline() has delivered
  lastline,     \* the line getline() delivered last (NoLine: none)
  pushedline,   \* the line pushed back (NoLine: NULL)
  gpu_id,       \* options.gpu_id
  db,           \* names the loaded register database knows
  regs,         \* Register State Tracker
  ringbuffers,  \* ringbuffers[0..4]
  id,           \* the local id of decode_ringbuffer
  rb_base,      \* the local rb_base of dump_cmdstream
  ibs,          \* options.ibs[1..2]
  ring_id,      \* the loop variable id of dump_cmdstream
  \* history variables
  nsections,    \* number of registers: headers dispatched
  nends,        \* number of registers sections ended by an unindented line
  ncs,          \* number of dump_cmdstream runs started
  created,      \* ids of the ring records the ringbuffer decoder has written
  wasSet,       \* register indices the registers decoder has set
  looked,       \* names looked up in the current dump_cmdstream run
  rec,          \* the last Reconstruct result of the current run
  nhand,        \* number of dump_commands calls in the current run
  handed,       \* the last [buf, cmdszdw] handed to dump_commands
  \* the process and its input
  input,        \* the stream: [lines, max], the lines it may hold and their
                \* number at most
  proc,         \* [in, interactive, pager]: the stream main() reads from
                \* ("stdin", "file", "NULL"), isatty(stdout), pager opened
  \* locals of the section decoders
  bo,           \* [iova, size] of decode_bos
  sec,          \* [name, sizedwords] of the indexed-registers, shader-blocks
                \* and debugbus decoders (name is NoName while NULL)
  buffers,      \* the Buffer Regions add_buffer() has registered
  \* output
  cur,          \* the line handed over last: [line, role, n, echoed]; role is
                \* "top", "body", "marker" or "payload", n counts the
                \* hand-overs, echoed tells whether printf("%s", line) ran
  diag,         \* the pattern the parse-error diagnostic names ("" if none)
  \* history variables of the line reader harness
  ret,          \* what the last popline() returned
  prevop,       \* the calls so far, oldest first
  consumed,     \* the lines getline() has delivered, in order
  a85           \* the payload decoder harness: [n, words, line, res, buf]

vars ==
  <<status, pc, nread, lastline, pushedline, gpu_id, db, regs, ringbuffers,
    id, rb_base, ibs, ring_id, nsections, nends, ncs, created, wasSet, looked,
    rec, nhand, handed, input, proc, bo, sec, buffers, cur, diag, ret,
    prevop, consumed, a85>>

readerVars == <<nread, lastline, pushedline>>

decodeVars == <<gpu_id, db, regs, ringbuffers, id>>

csVars == <<rb_base, ibs, ring_id>>

csHist == <<looked, rec, nhand, handed>>

sectionHist == <<nsections, nends, ncs, created, wasSet>>

harnessVars == <<ret, prevop, consumed, a85>>

ioVars == <<input, proc>>

bosVars == <<bo, sec, buffers>>

echoVars == <<cur, diag>>

(***************************************************************************)
(* Input.                                                                  *)
(***************************************************************************)
\* NULL line pointer; also what getline() yields at end of input
NoLine == ""

\* the lines the input stream is made of
InputLines ==
  { "revision: 630\n",
    "kernel: 5.4.0\n",
    "ringbuffer:\n",
    "registers:\n",
    "  - id: 1\n",
    "    iova: 1000\n",
    "    rptr: 1\n",
    "    wptr: 3\n",
    "    size: 16\n",
    "    data: !!ascii85 |\n",
    "      E\"IO\"zz5R7>j\n",
    "  - { offset: 2000, value: 1000 }\n" }

\* what getline() can yield: end of input, or a line while the stream has one
getline == IF nread < input.max THEN input.lines \cup {NoLine} ELSE {NoLine}

\* the databases cffdec_init() may load
AllRegNames ==
  {"CP_RB_BASE", "CP_IB1_BASE", "CP_IB1_REM_SIZE", "CP_IB2_BASE",
   "CP_IB2_REM_SIZE", "CP_CSQ_IB1_STAT", "CP_CSQ_IB2_STAT"}

Databases == {AllRegNames, AllRegNames \ {"CP_IB2_REM_SIZE"}}

(***************************************************************************)
(* Line reader.                                                            *)
(***************************************************************************)
Reader == [lastline |-> lastline, pushedline |-> pushedline, nread |-> nread]

SetReader(r) ==
  /\ lastline' = r.lastline
  /\ pushedline' = r.pushedline
  /\ nread' = r.nread

\* popline that reads the input although a line is pushed back
popline_fresh(r, got) ==
  IF got = NoLine
  THEN [line |-> NoLine, eof |-> TRUE, r |-> r]
  ELSE [line |-> got, eof |-> FALSE,
        r |-> [r EXCEPT !.lastline = got, !.nread = @ + 1, !.pushedline = NoLine]]

\* popline that leaves the pushed line pending
popline_keep(r, got) ==
  IF r.pushedline # NoLine
  THEN [line |-> r.pushedline, eof |-> FALSE, r |-> r]
  ELSE IF got = NoLine
  THEN [line |-> NoLine, eof |-> TRUE, r |-> r]
  ELSE [line |-> got, eof |-> FALSE,
        r |-> [r EXCEPT !.lastline = got, !.nread = @ + 1]]

\* popline that hands out an empty line at the end of the input and returns
popline_return(r, got) ==
  IF r.pushedline # NoLine
  THEN [line |-> r.pushedline, eof |-> FALSE,
        r |-> [r EXCEPT !.pushedline = NoLine]]
  ELSE IF got = NoLine
  THEN [line |-> "\n", eof |-> FALSE, r |-> r]
  ELSE [line |-> got, eof |-> FALSE,
        r |-> [r EXCEPT !.lastline = got, !.nread = @ + 1]]

\* popline() on reader state r when getline() would yield got:
\* [line, eof, r]; eof is the exit(0)
popline(r, got) ==
  IF r.pushedline # NoLine
  THEN [line |-> r.pushedline, eof |-> FALSE,
        r |-> [r EXCEPT !.pushedline = NoLine]]
  ELSE IF got = NoLine
  THEN [line |-> NoLine, eof |-> TRUE, r |-> r]
  ELSE [line |-> got, eof |-> FALSE,
        r |-> [r EXCEPT !.lastline = got, !.nread = @ + 1]]

\* pushline(): [ok, r]; ~ok is the failed assertion
pushline(r) ==
  [ok |-> r.pushedline = NoLine, r |-> [r EXCEPT !.pushedline = r.lastline]]

\* one step of foreach_line_in_section: [kind, line, r] with kind "eof",
\* "abort", "end" (the line was pushed back) or "body"
\* section_end that loses the line instead of pushing it back
section_end_lost(line, q) ==
  [kind |-> IF q.ok THEN "end" ELSE "abort", line |-> line,
   r |-> [q.r EXCEPT !.pushedline = NoLine]]

section_end(line, q) ==
  [kind |-> IF q.ok THEN "end" ELSE "abort", line |-> line, r |-> q.r]

section_line(r, p) ==
  IF p.eof THEN [kind |-> "eof", line |-> NoLine, r |-> r]
  ELSE IF At(p.line, 1) # " " THEN section_end(p.line, pushline(p.r))
  ELSE [kind |-> "body", line |-> p.line, r |-> p.r]

foreach_line_in_section(r, got) == section_line(r, popline(r, got))

\* popline_ascii85(sizedwords): [res, buf, line, r] with res "eof", "abort",
\* "ub" or "ok", line being the payload line
ascii85_result(d, p) ==
  [res |-> d.res, buf |-> d.buf, line |-> p.line, r |-> p.r]

ascii85_line(r, p, sizedwords) ==
  IF p.eof THEN [res |-> "eof", buf |-> <<>>, line |-> NoLine, r |-> r]
  ELSE ascii85_result(ascii85(p.line, sizedwords), p)

popline_ascii85(r, got, sizedwords) ==
  ascii85_line(r, popline(r, got), sizedwords)

(***************************************************************************)
(* Ways the process ends.                                                  *)
(***************************************************************************)
\* the process ends with status s, the line reader being left in state r
Stop(s, r) ==
  /\ status' = s
  /\ SetReader(r)
  /\ UNCHANGED <<pc, decodeVars, csVars, csHist, sectionHist, harnessVars,
                 ioVars, bosVars, echoVars>>

\* undefined behaviour: the process is killed by a signal, or does anything
Undefined(r) == \E s \in {"signal", "undefined"} : Stop(s, r)

\* the hand-over of a line to the top-level loop or to a section decoder
Handed(line, role, echoed) ==
  [line |-> line, role |-> role, n |-> cur.n + 1, echoed |-> echoed]

NoCur == [line |-> NoLine, role |-> "none", n |-> 0, echoed |-> FALSE]

\* the line h was handed over and the run ends with status s
StopAt(s, r, h) ==
  /\ status' = s
  /\ SetReader(r)
  /\ cur' = h
  /\ UNCHANGED <<pc, decodeVars, csVars, csHist, sectionHist, harnessVars,
                 ioVars, bosVars, diag>>

\* undefined behaviour while the line h is processed
UndefinedAt(r, h) == \E s \in {"signal", "undefined"} : StopAt(s, r, h)

\* ParseError that ends the process with status 0
ParseError_exit0(r, f, h) ==
  /\ status' = "exit0"
  /\ SetReader(r)
  /\ cur' = h
  /\ diag' = f.fmt
  /\ UNCHANGED <<pc, decodeVars, csVars, csHist, sectionHist, harnessVars,
                 ioVars, bosVars>>

\* the exit(1) of parseline() on the line h: the diagnostic names f.fmt
ParseError(r, f, h) ==
  /\ status' = "exit1"
  /\ SetReader(r)
  /\ cur' = h
  /\ diag' = f.fmt
  /\ UNCHANGED <<pc, decodeVars, csVars, csHist, sectionHist, harnessVars,
                 ioVars, bosVars>>

(***************************************************************************)
(* decode(): one iteration of the top-level loop.                          *)
(***************************************************************************)
\* decode_next without the call of dump_cmdstream
decode_next_skip(section) == "decode"

\* decode_next calling dump_cmdstream after the first registers section only
decode_next_once(section) ==
  IF section = "registers" /\ ncs = 0 THEN "dump_cmdstream" ELSE "decode"

\* where decode() continues when the decoder of a section returns
decode_next(section) ==
  IF section = "registers" THEN "dump_cmdstream" ELSE "decode"

\* what no step of decode() or of a section decoder changes
frameVars == <<csVars, csHist, harnessVars, ioVars>>

\* the locals of decode_bos; sized is history: a size: line was parsed since
\* the last - iova: line
NoBo == [iova |-> Zero64, size |-> Zero32, sized |-> FALSE]

\* NULL name pointer
NoName == ""

NoSec == [name |-> NoName, sizedwords |-> Zero32]

\* cffdec_init(&options), the start of the external disassembler for the
\* generation, as far as the tracker goes: it may keep the tracker or start
\* it afresh
cffdec_init(rs) == {rs, reset_regs(rs)}

\* the "revision:" line h: f is the result of parseline
decode_revision(r, f, h) ==
  IF ~f.ok THEN ParseError(r, f, h)
  ELSE /\ SetReader(r)
       /\ cur' = h
       /\ gpu_id' = f.vals[1]
       /\ \E d \in Databases : db' = d
       /\ regs' \in cffdec_init(regs)
       /\ UNCHANGED <<status, pc, ringbuffers, id, frameVars,
                      sectionHist, bosVars, diag>>

\* the call of the section decoder whose loop is at next: its locals are
\* initialised
decode_section(r, h, next) ==
  /\ SetReader(r)
  /\ cur' = h
  /\ pc' = next
  /\ id' = IF next = "decode_ringbuffer" THEN Zero32 ELSE id
  /\ bo' = IF next = "decode_bos" THEN NoBo ELSE bo
  /\ sec' = IF next \in {"decode_indexed_registers", "decode_shader_blocks",
                         "decode_debugbus"}
            THEN NoSec ELSE sec
  /\ nsections' = IF next = "decode_registers" THEN nsections + 1 ELSE nsections
  /\ UNCHANGED <<status, gpu_id, db, regs, ringbuffers, frameVars, nends, ncs,
                 created, wasSet, buffers, diag>>

\* the dispatch on the line p that popline() returned
decode_line(p) ==
  IF p.eof THEN Stop("exit0", Reader)
  ELSE IF startswith(p.line, "revision:")
  THEN decode_revision(p.r, parseline(p.line, "revision: %u"),
                       Handed(p.line, "top", TRUE))
  ELSE IF startswith(p.line, "bos:")
  THEN decode_section(p.r, Handed(p.line, "top", TRUE), "decode_bos")
  ELSE IF startswith(p.line, "ringbuffer:")
  THEN decode_section(p.r, Handed(p.line, "top", TRUE), "decode_ringbuffer")
  ELSE IF startswith(p.line, "registers:")
  THEN decode_section(p.r, Handed(p.line, "top", TRUE), "decode_registers")
  ELSE IF startswith(p.line, "registers-gmu:")
  THEN decode_section(p.r, Handed(p.line, "top", TRUE), "decode_gmu_registers")
  ELSE IF startswith(p.line, "indexed-registers:")
  THEN decode_section(p.r, Handed(p.line, "top", TRUE),
                      "decode_indexed_registers")
  ELSE IF startswith(p.line, "shader-blocks:")
  THEN decode_section(p.r, Handed(p.line, "top", TRUE), "decode_shader_blocks")
  ELSE IF startswith(p.line, "clusters:")
  THEN decode_section(p.r, Handed(p.line, "top", TRUE), "decode_clusters")
  ELSE IF startswith(p.line, "debugbus:")
  THEN decode_section(p.r, Handed(p.line, "top", TRUE), "decode_debugbus")
  ELSE /\ SetReader(p.r)
       /\ cur' = Handed(p.line, "top", TRUE)
       /\ UNCHANGED <<status, pc, decodeVars, frameVars, sectionHist, bosVars,
                      diag>>

\* getline() on the stream in: a NULL stream is undefined behaviour
decode ==
  /\ status = "run"
  /\ pc = "decode"
  /\ IF proc.in = "NULL" /\ pushedline = NoLine
     THEN Undefined(Reader)
     ELSE \E got \in getline : decode_line(popline(Reader, got))

(***************************************************************************)
(* What the section decoders share.                                        *)
(***************************************************************************)
\* the loop of a section decoder ends: end of input, the failed assertion of
\* pushline(), or the return to decode() with the line pushed back
section_exit(st, section) ==
  CASE st.kind = "eof" -> Stop("exit0", Reader)
    [] st.kind = "abort" -> Stop("abort", st.r)
    [] st.kind = "end" ->
         /\ SetReader(st.r)
         /\ pc' = decode_next(section)
         /\ nends' = IF section = "registers" THEN nends + 1 ELSE nends
         /\ UNCHANGED <<status, decodeVars, frameVars, nsections, ncs, created,
                        wasSet, bosVars, echoVars>>

\* a body line that a decoder only echoes
\* echo_line that writes nothing
echo_line_silent(line) ==
  /\ cur' = Handed(line, "body", FALSE)
  /\ UNCHANGED <<status, pc, diag>>

echo_line(line) ==
  /\ cur' = Handed(line, "body", TRUE)
  /\ UNCHANGED <<status, pc, diag>>

\* the data: marker: the decoder goes on with the payload line
data_marker(line, next) ==
  /\ cur' = Handed(line, "marker", FALSE)
  /\ pc' = next
  /\ UNCHANGED <<status, diag>>

\* a line whose parse result is f: exit(1), or the line is echoed
parsed_line(f, line) ==
  /\ status' = IF f.ok THEN status ELSE "exit1"
  /\ diag' = IF f.ok THEN diag ELSE f.fmt
  /\ cur' = Handed(line, "body", f.ok)
  /\ UNCHANGED pc

\* add_buffer(iova, size, buf)
add_buffer(bufs, iova, size, buf) ==
  bufs \cup {[iova |-> iova, size |-> size, buf |-> buf]}

(***************************************************************************)
(* decode_ringbuffer(): one iteration of its loop over the section.        *)
(***************************************************************************)
\* assert(id < ARRAY_SIZE(ringbuffers)), the comparison being unsigned
\* id_in_range with the comparison made on signed integers
id_in_range_signed(i) == i.hi >= 32768 \/ (i.hi = 0 /\ i.lo < NumRings)

id_in_range(i) == i.hi = 0 /\ i.lo < NumRings

\* the "  - id:" line: f is the result of parseline
RingId(f, line) ==
  /\ status' = IF ~f.ok THEN "exit1"
               ELSE IF ~id_in_range(f.vals[1]) THEN "abort"
               ELSE status
  /\ diag' = IF f.ok THEN diag ELSE f.fmt
  /\ cur' = Handed(line, "body", f.ok /\ id_in_range(f.vals[1]))
  /\ id' = IF f.ok THEN f.vals[1] ELSE id
  /\ UNCHANGED <<pc, ringbuffers, created>>

\* a field line "<key> <number>" stores the number in field fld of ring id;
\* f is the result of parseline
RingField(f, fld, line) ==
  /\ IF ~f.ok THEN UNCHANGED <<ringbuffers, created>>
     ELSE /\ ringbuffers' = [ringbuffers EXCEPT ![id.lo][fld] = f.vals[1]]
          /\ created' = created \cup {id.lo}
  /\ parsed_line(f, line)
  /\ UNCHANGED id

\* the body of the loop for a line of the section
ringbuffer_line(line) ==
  IF startswith(line, "  - id:")
  THEN RingId(parseline(line, "  - id: %d"), line)
  ELSE IF startswith(line, "    iova:")
  THEN RingField(parseline(line, "    iova: %lx"), "iova", line)
  ELSE IF startswith(line, "    rptr:")
  THEN RingField(parseline(line, "    rptr: %d"), "rptr", line)
  ELSE IF startswith(line, "    wptr:")
  THEN RingField(parseline(line, "    wptr: %d"), "wptr", line)
  ELSE IF startswith(line, "    size:")
  THEN RingField(parseline(line, "    size: %d"), "size", line)
  ELSE IF startswith(line, "    data: !!ascii85 |")
  THEN /\ data_marker(line, "ringbuffer_data")
       /\ UNCHANGED <<ringbuffers, id, created>>
  ELSE /\ echo_line(line)
       /\ UNCHANGED <<ringbuffers, id, created>>

\* one step st of foreach_line_in_section in decode_ringbuffer
ringbuffer_step(st) ==
  IF st.kind = "body"
  THEN /\ SetReader(st.r)
       /\ UNCHANGED <<gpu_id, db, regs, frameVars, nsections, nends, ncs,
                      wasSet, bosVars>>
       /\ ringbuffer_line(st.line)
  ELSE section_exit(st, "ringbuffer")

decode_ringbuffer ==
  /\ status = "run"
  /\ pc = "decode_ringbuffer"
  /\ \E got \in getline : ringbuffer_step(foreach_line_in_section(Reader, got))

\* the result d of popline_ascii85 becomes the ring's buffer, which is
\* registered as a Buffer Region
ringbuffer_payload(d) ==
  CASE d.res = "eof" -> Stop("exit0", Reader)
    [] d.res = "abort" -> StopAt("abort", d.r, Handed(d.line, "payload", FALSE))
    [] d.res = "ub" -> UndefinedAt(d.r, Handed(d.line, "payload", FALSE))
    [] d.res = "ok" ->
         /\ SetReader(d.r)
         /\ cur' = Handed(d.line, "payload", FALSE)
         /\ ringbuffers' = [ringbuffers EXCEPT ![id.lo].buf = Buf(d.buf)]
         /\ created' = created \cup {id.lo}
         /\ buffers' = add_buffer(buffers, ringbuffers[id.lo].iova,
                                  ringbuffers[id.lo].size, d.buf)
         /\ pc' = "decode_ringbuffer"
         /\ UNCHANGED <<status, gpu_id, db, regs, id, frameVars, nsections,
                        nends, ncs, wasSet, bo, sec, diag>>

\* the data: branch of decode_ringbuffer: the payload line is decoded into
\* the ring's buffer
ringbuffer_data ==
  /\ status = "run"
  /\ pc = "ringbuffer_data"
  /\ \E got \in getline :
       ringbuffer_payload(
         popline_ascii85(Reader, got, U32(Shr2(ringbuffers[id.lo].size))))

(***************************************************************************)
(* decode_bos(): one iteration of its loop over the section.               *)
(***************************************************************************)
\* a field line of a bos record: f is the result of parseline
BoField(f, fld, line) ==
  /\ bo' = IF f.ok
           THEN [bo EXCEPT ![fld] = f.vals[1], !.sized = (fld = "size")]
           ELSE bo
  /\ parsed_line(f, line)

bos_line(line) ==
  IF startswith(line, "  - iova:")
  THEN BoField(parseline(line, "  - iova: %lx"), "iova", line)
  ELSE IF startswith(line, "    size:")
  THEN BoField(parseline(line, "    size: %u"), "size", line)
  ELSE IF startswith(line, "    data: !!ascii85 |")
  THEN data_marker(line, "bos_data") /\ UNCHANGED bo
  ELSE echo_line(line) /\ UNCHANGED bo

bos_step(st) ==
  IF st.kind = "body"
  THEN /\ SetReader(st.r)
       /\ UNCHANGED <<decodeVars, frameVars, sectionHist, sec, buffers>>
       /\ bos_line(st.line)
  ELSE section_exit(st, "bos")

decode_bos ==
  /\ status = "run"
  /\ pc = "decode_bos"
  /\ \E got \in getline : bos_step(foreach_line_in_section(Reader, got))

\* the result d of popline_ascii85(size / 4) is registered as a Buffer Region
bos_payload(d) ==
  CASE d.res = "eof" -> Stop("exit0", Reader)
    [] d.res = "abort" -> StopAt("abort", d.r, Handed(d.line, "payload", FALSE))
    [] d.res = "ub" -> UndefinedAt(d.r, Handed(d.line, "payload", FALSE))
    [] d.res = "ok" ->
         /\ SetReader(d.r)
         /\ cur' = Handed(d.line, "payload", FALSE)
         /\ buffers' = add_buffer(buffers, bo.iova, bo.size, d.buf)
         /\ pc' = "decode_bos"
         /\ UNCHANGED <<status, decodeVars, frameVars, sectionHist, bo, sec,
                        diag>>

bos_data ==
  /\ status = "run"
  /\ pc = "bos_data"
  /\ \E got \in getline :
       bos_payload(popline_ascii85(Reader, got, U32(Shr2(bo.size))))

(***************************************************************************)
(* decode_registers(), decode_gmu_registers() and decode_clusters(): one   *)
(* iteration of the loop over the section.                                 *)
(***************************************************************************)
\* the body of the loop: f is the result of parseline, r the reader state
register_line(r, f, line) ==
  IF ~f.ok THEN ParseError(r, f, Handed(line, "body", FALSE))
  ELSE /\ SetReader(r)
       /\ cur' = Handed(line, "body", FALSE)
       /\ regs' = reg_set(regs, Shr2(f.vals[1]), f.vals[2])
       /\ wasSet' = wasSet \cup {Shr2(f.vals[1])}
       /\ UNCHANGED <<status, pc, gpu_id, db, ringbuffers, id, frameVars,
                      nsections, nends, ncs, created, bosVars, diag>>

\* one step st of foreach_line_in_section in decode_registers
registers_step(st) ==
  IF st.kind = "body"
  THEN register_line(st.r,
                     parseline(st.line, "  - { offset: %x, value: %x }"),
                     st.line)
  ELSE section_exit(st, "registers")

decode_registers ==
  /\ status = "run"
  /\ pc = "decode_registers"
  /\ \E got \in getline : registers_step(foreach_line_in_section(Reader, got))

\* printed_line that also stores the value in the main tracker
printed_line_set(r, f, line) ==
  IF ~f.ok THEN ParseError(r, f, Handed(line, "body", FALSE))
  ELSE /\ SetReader(r)
       /\ cur' = Handed(line, "body", FALSE)
       /\ regs' = reg_set(regs, Shr2(f.vals[1]), f.vals[2])
       /\ UNCHANGED <<status, pc, gpu_id, db, ringbuffers, id, frameVars,
                      sectionHist, bosVars, diag>>

\* a line that is parsed and pretty-printed, nothing being stored
printed_line(r, f, line) ==
  IF ~f.ok THEN ParseError(r, f, Handed(line, "body", FALSE))
  ELSE /\ SetReader(r)
       /\ cur' = Handed(line, "body", FALSE)
       /\ UNCHANGED <<status, pc, decodeVars, frameVars, sectionHist, bosVars,
                      diag>>

gmu_registers_step(st) ==
  IF st.kind = "body"
  THEN printed_line(st.r,
                    parseline(st.line, "  - { offset: %x, value: %x }"),
                    st.line)
  ELSE section_exit(st, "registers-gmu")

decode_gmu_registers ==
  /\ status = "run"
  /\ pc = "decode_gmu_registers"
  /\ \E got \in getline :
       gmu_registers_step(foreach_line_in_section(Reader, got))

clusters_step(st) ==
  IF st.kind # "body" THEN section_exit(st, "clusters")
  ELSE IF \/ startswith(st.line, "  - cluster-name:")
          \/ startswith(st.line, "    - context:")
  THEN /\ SetReader(st.r)
       /\ echo_line(st.line)
       /\ UNCHANGED <<decodeVars, frameVars, sectionHist, bosVars>>
  ELSE printed_line(st.r,
                    parseline(st.line, "      - { offset: %x, value: %x }"),
                    st.line)

decode_clusters ==
  /\ status = "run"
  /\ pc = "decode_clusters"
  /\ \E got \in getline : clusters_step(foreach_line_in_section(Reader, got))

(***************************************************************************)
(* decode_indexed_registers(), decode_shader_blocks() and                  *)
(* decode_debugbus(): one iteration of the loop over the section.          *)
(***************************************************************************)
\* a field line of a block: f is the result of parseline
SecField(f, fld, line) ==
  /\ sec' = IF f.ok THEN [sec EXCEPT ![fld] = f.vals[1]] ELSE sec
  /\ parsed_line(f, line)

\* the body of the three loops: nameKey and countKey start the two field
\* lines, whose patterns are nameFmt and countFmt
block_line(line, nameKey, nameFmt, countKey, countFmt, next) ==
  IF startswith(line, nameKey)
  THEN SecField(parseline(line, nameFmt), "name", line)
  ELSE IF startswith(line, countKey)
  THEN SecField(parseline(line, countFmt), "sizedwords", line)
  ELSE IF startswith(line, "    data: !!ascii85 |")
  THEN data_marker(line, next) /\ UNCHANGED sec
  ELSE echo_line(line) /\ UNCHANGED sec

indexed_registers_step(st) ==
  IF st.kind = "body"
  THEN /\ SetReader(st.r)
       /\ UNCHANGED <<decodeVars, frameVars, sectionHist, bo, buffers>>
       /\ block_line(st.line, "  - regs-name:", "  - regs-name: %ms",
                     "    dwords:", "    dwords: %u", "indexed_registers_data")
  ELSE section_exit(st, "indexed-registers")

decode_indexed_registers ==
  /\ status = "run"
  /\ pc = "decode_indexed_registers"
  /\ \E got \in getline :
       indexed_registers_step(foreach_line_in_section(Reader, got))

shader_blocks_step(st) ==
  IF st.kind = "body"
  THEN /\ SetReader(st.r)
       /\ UNCHANGED <<decodeVars, frameVars, sectionHist, bo, buffers>>
       /\ block_line(st.line, "  - type:", "  - type: %ms",
                     "      size:", "      size: %u", "shader_blocks_data")
  ELSE section_exit(st, "shader-blocks")

decode_shader_blocks ==
  /\ status = "run"
  /\ pc = "decode_shader_blocks"
  /\ \E got \in getline :
       shader_blocks_step(foreach_line_in_section(Reader, got))

debugbus_step(st) ==
  IF st.kind = "body"
  THEN /\ SetReader(st.r)
       /\ UNCHANGED <<decodeVars, frameVars, sectionHist, bo, buffers>>
       /\ block_line(st.line, "  - debugbus-block:", "  - debugbus-block: %ms",
                     "    count:", "    count: %u", "debugbus_data")
  ELSE section_exit(st, "debugbus")

decode_debugbus ==
  /\ status = "run"
  /\ pc = "decode_debugbus"
  /\ \E got \in getline : debugbus_step(foreach_line_in_section(Reader, got))

\* number of words dump_cp_seq_stat() reads: stat[0] and 32 words after it
SeqStatWords == 33

\* what the decoder does with the decoded block buf: strcmp() on a NULL name
\* and reads past the end of the block are undefined behaviour
block_use(next, buf) ==
  IF next = "decode_debugbus" THEN "ok"
  ELSE IF sec.name = NoName THEN "ub"
  ELSE IF /\ next = "decode_indexed_registers"
          /\ sec.name = "CP_SEQ_STAT"
          /\ Len(buf) < SeqStatWords
  THEN "ub"
  ELSE "ok"

\* the result d of popline_ascii85(sizedwords) is dumped and freed; next is
\* the loop the payload belongs to
block_payload(d, next) ==
  CASE d.res = "eof" -> Stop("exit0", Reader)
    [] d.res = "abort" -> StopAt("abort", d.r, Handed(d.line, "payload", FALSE))
    [] d.res = "ub" -> UndefinedAt(d.r, Handed(d.line, "payload", FALSE))
    [] d.res = "ok" ->
         IF block_use(next, d.buf) = "ub"
         THEN UndefinedAt(d.r, Handed(d.line, "payload", FALSE))
         ELSE /\ SetReader(d.r)
              /\ cur' = Handed(d.line, "payload", FALSE)
              /\ pc' = next
              /\ UNCHANGED <<status, decodeVars, frameVars, sectionHist,
                             bosVars, diag>>

indexed_registers_data ==
  /\ status = "run"
  /\ pc = "indexed_registers_data"
  /\ \E got \in getline :
       block_payload(popline_ascii85(Reader, got, sec.sizedwords),
                     "decode_indexed_registers")

shader_blocks_data ==
  /\ status = "run"
  /\ pc = "shader_blocks_data"
  /\ \E got \in getline :
       block_payload(popline_ascii85(Reader, got, sec.sizedwords),
                     "decode_shader_blocks")

debugbus_data ==
  /\ status = "run"
  /\ pc = "debugbus_data"
  /\ \E got \in getline :
       block_payload(popline_ascii85(Reader, got, sec.sizedwords),
                     "decode_debugbus")

(***************************************************************************)
(* dump_cmdstream(), in three steps: the register reads, the reset of the  *)
(* tracker, and one iteration of the loop over ringbuffers[].              *)
(***************************************************************************)
\* the names looked up, in the order of the calls
cs_lookups(gpu) ==
  <<"CP_RB_BASE", "CP_IB1_BASE", "CP_IB1_REM_SIZE", "CP_IB2_BASE",
    "CP_IB2_REM_SIZE">>
  \o (IF is_a6xx(gpu) THEN <<"CP_CSQ_IB1_STAT", "CP_CSQ_IB2_STAT">> ELSE <<>>)

\* assert_reg compiled out
assert_reg_off(database, name) == TRUE

\* assert(reg) of regval64() and regval()
assert_reg(database, name) == regbase(database, name) # 0

\* ib_rem that adds the count of CSQ_IBn_STAT on every generation
ib_rem_always(rs, database, gpu, remName, statName) ==
  Add32(regval(rs, database, remName), Shr16(regval(rs, database, statName)))

\* options.ibs[n].rem: REM_SIZE, plus on a6xx the ROQ count of CSQ_IBn_STAT
ib_rem(rs, database, gpu, remName, statName) ==
  IF is_a6xx(gpu)
  THEN Add32(regval(rs, database, remName), Shr16(regval(rs, database, statName)))
  ELSE regval(rs, database, remName)

NoRec ==
  [res |-> "none", ringszdw |-> 0, start |-> 0, rptr |-> 0, reads |-> <<>>,
   cmdszdw |-> 0, from |-> <<>>, buf |-> <<>>]

NoHand == [buf |-> <<>>, cmdszdw |-> 0]

\* rb_base after the first done lookups of cs_lookups have passed their
\* assertion: the assignment of a value follows its lookup
rb_base_after(rs, database, gpu, old, done) ==
  IF done >= 1 THEN regval64(rs, database, gpu, "CP_RB_BASE") ELSE old

\* options.ibs[n].base and .rem after done lookups: names base, rem and stat
\* are the lookups number nb, nr and ns
ib_after(rs, database, gpu, old, done, base, nb, rem, nr, stat, ns) ==
  [base |-> IF done >= nb THEN regval64(rs, database, gpu, base)
            ELSE old.base,
   rem  |-> IF done >= ns
            THEN Add32(regval(rs, database, rem),
                       Shr16(regval(rs, database, stat)))
            ELSE IF done >= nr THEN regval(rs, database, rem)
            ELSE old.rem]

\* options.ibs after done lookups
ibs_after(rs, database, gpu, old, done) ==
  <<ib_after(rs, database, gpu, old[1], done, "CP_IB1_BASE", 2,
             "CP_IB1_REM_SIZE", 3, "CP_CSQ_IB1_STAT", 6),
    ib_after(rs, database, gpu, old[2], done, "CP_IB2_BASE", 4,
             "CP_IB2_REM_SIZE", 5, "CP_CSQ_IB2_STAT", 7)>>

dump_cmdstream ==
  /\ status = "run"
  /\ pc = "dump_cmdstream"
  /\ ncs' = ncs + 1
  /\ rec' = NoRec
  /\ nhand' = 0
  /\ handed' = NoHand
  /\ LET names  == cs_lookups(gpu_id)
         failed == {k \in 1..Len(names) : ~assert_reg(db, names[k])}
         first  == CHOOSE k \in failed : \A j \in failed : k <= j
     IN  IF failed # {}
         THEN /\ status' = "abort"
              /\ looked' = SubSeq(names, 1, first)
              /\ rb_base' = rb_base_after(regs, db, gpu_id, rb_base, first - 1)
              /\ ibs' = ibs_after(regs, db, gpu_id, ibs, first - 1)
              /\ UNCHANGED pc
         ELSE /\ looked' = names
              /\ rb_base' = regval64(regs, db, gpu_id, "CP_RB_BASE")
              /\ ibs' =
                   <<[base |-> regval64(regs, db, gpu_id, "CP_IB1_BASE"),
                      rem  |-> ib_rem(regs, db, gpu_id, "CP_IB1_REM_SIZE",
                                      "CP_CSQ_IB1_STAT")],
                     [base |-> regval64(regs, db, gpu_id, "CP_IB2_BASE"),
                      rem  |-> ib_rem(regs, db, gpu_id, "CP_IB2_REM_SIZE",
                                      "CP_CSQ_IB2_STAT")]>>
              /\ pc' = "reset_regs"
              /\ UNCHANGED status
  /\ UNCHANGED <<readerVars, decodeVars, ring_id, nsections, nends, created,
                 wasSet, harnessVars, ioVars, bosVars,
                 echoVars>>

\* dump_cmdstream_reset without the call of reset_regs
dump_cmdstream_noreset ==
  /\ status = "run"
  /\ pc = "reset_regs"
  /\ ring_id' = 0
  /\ pc' = "find_ring"
  /\ UNCHANGED <<status, readerVars, decodeVars, rb_base, ibs, csHist,
                 sectionHist, harnessVars, ioVars, bosVars,
                 echoVars>>

dump_cmdstream_reset ==
  /\ status = "run"
  /\ pc = "reset_regs"
  /\ regs' = reset_regs(regs)
  /\ ring_id' = 0
  /\ pc' = "find_ring"
  /\ UNCHANGED <<status, readerVars, gpu_id, db, ringbuffers, id, rb_base, ibs,
                 csHist, sectionHist, harnessVars, ioVars, bosVars,
                 echoVars>>

\* the stores [index, value] the disassembler may make in the tracker
DisasmStores == {<<RegIndex["CP_RB_BASE"], U32(1)>>}

\* dump_commands(buf, cmdszdw, 0), the external disassembler, as far as the
\* tracker goes: the trackers it may leave behind.  The packets it decodes
\* may write registers, which it stores in the tracker (dump_cmdstream
\* resets the tracker so that this decode starts clean); of no word it
\* decodes nothing
dump_commands(rs, cmdszdw) ==
  IF cmdszdw = 0 THEN {rs}
  ELSE {rs} \cup {reg_set(rs, st[1], st[2]) : st \in DisasmStores}

dump_cmdstream_ring ==
  /\ status = "run"
  /\ pc = "find_ring"
  /\ UNCHANGED <<readerVars, gpu_id, db, ringbuffers, id, rb_base, ibs,
                 looked, sectionHist, harnessVars, ioVars, bosVars,
                 echoVars>>
  /\ IF ring_id >= NumRings
     THEN /\ pc' = "decode"
          /\ UNCHANGED <<status, regs, ring_id, rec, nhand, handed>>
     ELSE IF ringbuffers[ring_id].iova # rb_base
     THEN /\ ring_id' = ring_id + 1
          /\ UNCHANGED <<status, pc, regs, rec, nhand, handed>>
     ELSE LET r == Reconstruct(ringbuffers[ring_id], gpu_id)
          IN  /\ rec' = r
              /\ IF r.res = "ub"
                 THEN /\ status' \in {"signal", "undefined"}
                      /\ UNCHANGED <<pc, regs, ring_id, nhand, handed>>
                 ELSE /\ nhand' = nhand + 1
                      /\ handed' = [buf |-> r.buf, cmdszdw |-> r.cmdszdw]
                      /\ regs' \in dump_commands(regs, r.cmdszdw)
                      /\ ring_id' = ring_id + 1
                      /\ UNCHANGED <<status, pc>>

(***************************************************************************)
(* The decoder on an arbitrary input of at most MaxLines lines.            *)
(***************************************************************************)
NoIbs == <<[base |-> Zero64, rem |-> Zero32], [base |-> Zero64, rem |-> Zero32]>>

\* main() reading stdin, no pager
Stdin == [in |-> "stdin", interactive |-> FALSE, pager |-> FALSE]

\* the payload decoder harness at rest
NoA85 == [n |-> 0, words |-> <<>>, line |-> NoLine, res |-> "none", buf |-> <<>>]

Init ==
  /\ status = "run"
  /\ pc = "decode"
  /\ nread = 0
  /\ lastline = NoLine
  /\ pushedline = NoLine
  /\ gpu_id = Zero32
  /\ db = {}
  /\ regs = NoRegs
  /\ ringbuffers = [i \in 0..(NumRings - 1) |-> NoRing]
  /\ id = Zero32
  /\ rb_base = Zero64
  /\ ibs = NoIbs
  /\ ring_id = 0
  /\ nsections = 0
  /\ nends = 0
  /\ ncs = 0
  /\ created = {}
  /\ wasSet = {}
  /\ looked = <<>>
  /\ rec = NoRec
  /\ nhand = 0
  /\ handed = NoHand
  /\ input = [lines |-> InputLines, max |-> MaxLines]
  /\ proc = Stdin
  /\ bo = NoBo
  /\ sec = NoSec
  /\ buffers = {}
  /\ cur = NoCur
  /\ diag = ""
  /\ ret = NoLine
  /\ prevop = <<>>
  /\ consumed = <<>>
  /\ a85 = NoA85

Next ==
  \/ decode
  \/ decode_ringbuffer
  \/ ringbuffer_data
  \/ decode_registers
  \/ dump_cmdstream
  \/ dump_cmdstream_reset
  \/ dump_cmdstream_ring

Spec == Init /\ [][Next]_vars

(***************************************************************************)
(* The decoder on an input that may hold every kind of section, of at most *)
(* MaxSectionLines lines.                                                  *)
(***************************************************************************)
SectionLines ==
  { "revision: 630\n",
    "kernel: 5.4.0\n",
    "bos:\n",
    "ringbuffer:\n",
    "registers:\n",
    "registers-gmu:\n",
    "indexed-registers:\n",
    "shader-blocks:\n",
    "clusters:\n",
    "debugbus:\n",
    "  - iova: 1000\n",
    "  - iova: 3000\n",
    "    size: 8\n",
    "    data: !!ascii85 |\n",
    "      zz\n",
    "      \n",
    "  - { offset: 2000, value: 1000 }\n",
    "  - regs-name: CP_ROQ\n",
    "    dwords: 2\n",
    "  - type: A6XX_SP_INST_DATA\n",
    "  - debugbus-block: A\n",
    "  - cluster-name: X\n" }

InitSections ==
  /\ status = "run"
  /\ pc = "decode"
  /\ nread = 0
  /\ lastline = NoLine
  /\ pushedline = NoLine
  /\ gpu_id = Zero32
  /\ db = {}
  /\ regs = NoRegs
  /\ ringbuffers = [i \in 0..(NumRings - 1) |-> NoRing]
  /\ id = Zero32
  /\ rb_base = Zero64
  /\ ibs = NoIbs
  /\ ring_id = 0
  /\ nsections = 0
  /\ nends = 0
  /\ ncs = 0
  /\ created = {}
  /\ wasSet = {}
  /\ looked = <<>>
  /\ rec = NoRec
  /\ nhand = 0
  /\ handed = NoHand
  /\ input = [lines |-> SectionLines, max |-> MaxSectionLines]
  /\ proc = Stdin
  /\ bo = NoBo
  /\ sec = NoSec
  /\ buffers = {}
  /\ cur = NoCur
  /\ diag = ""
  /\ ret = NoLine
  /\ prevop = <<>>
  /\ consumed = <<>>
  /\ a85 = NoA85

NextSections ==
  \/ decode
  \/ decode_bos
  \/ bos_data
  \/ decode_ringbuffer
  \/ ringbuffer_data
  \/ decode_registers
  \/ decode_gmu_registers
  \/ decode_clusters
  \/ decode_indexed_registers
  \/ indexed_registers_data
  \/ decode_shader_blocks
  \/ shader_blocks_data
  \/ decode_debugbus
  \/ debugbus_data
  \/ dump_cmdstream
  \/ dump_cmdstream_reset
  \/ dump_cmdstream_ring

SpecSections == InitSections /\ [][NextSections]_vars

(***************************************************************************)
(* dump_cmdstream() from the states decode() can call it in: the ring      *)
(* table, the register state, the generation and the database are drawn    *)
(* from the sets below.                                                    *)
(***************************************************************************)
\* CP_NOP type-7 header 0x70108000, type-4 header 0x40080001, and a word
\* 0xdeadbeef that is no header
NOP7 == [hi |-> 28688, lo |-> 32768]

REG4 == [hi |-> 16392, lo |-> 1]

JUNK == [hi |-> 57005, lo |-> 48879]

\* ring contents of ringszdw words with headers exactly at the indices hdrs
Fill(ringszdw, hdrs) ==
  [k \in 1..ringszdw |-> IF (k - 1) \in hdrs THEN NOP7 ELSE JUNK]

\* sizes in bytes of the rings tried
CmdSizes == {0, 3, 4, 12, 16, 52, 1024}

CmdPointers(ringszdw) ==
  {U32(0), U32(1), U32(5), U32(100), U32(140), MaxU32}
  \cup (IF ringszdw > 0 THEN {U32(ringszdw - 1)} ELSE {})

CmdHeaders(ringszdw) ==
  {{}, 0..(ringszdw - 1), {0}, {ringszdw - 1}}
  \cup (IF ringszdw > 100 THEN {{88}, {93}, {99}, {100}, {87, 100}} ELSE {})

RingIova == U64(Zero32, U32(4096))

\* the rings of sz bytes whose payload held sz / 4 words
RingsOfSize(sz) ==
  { [iova |-> RingIova, rptr |-> r, wptr |-> w, size |-> U32(sz),
     buf |-> Buf(Fill(sz \div 4, h))] :
      r \in CmdPointers(sz \div 4), w \in CmdPointers(sz \div 4),
      h \in CmdHeaders(sz \div 4) }

CmdRings ==
  {NoRing} \cup UNION {RingsOfSize(sz) : sz \in CmdSizes}
  \cup
  \* a ring whose size: line came after its data: line, and one without data
  { [iova |-> RingIova, rptr |-> U32(1), wptr |-> U32(3), size |-> U32(16),
     buf |-> b] : b \in {Buf(Fill(2, {})), NullBuf} }

\* register states: nothing set, CP_RB_BASE = 0x1000 alone, with the IB
\* registers, and with a high word
CmdRegs ==
  { NoRegs,
    (2048 :> U32(4096)),
    (2048 :> U32(4096)) @@ (2346 :> U32(32)) @@ (2361 :> [hi |-> 3, lo |-> 7])
      @@ (2354 :> MaxU32) @@ (2362 :> [hi |-> 1, lo |-> 0]),
    (2048 :> U32(4096)) @@ (2049 :> U32(1)) }

CmdGpus ==
  {<<Zero32, {}>>} \cup ({U32(530), U32(630)} \X Databases)
  \cup ({U32(600), U32(700)} \X {AllRegNames})

(***************************************************************************)
(* The state in which decode() calls dump_cmdstream(): the input so far    *)
(* was a revision: line (unless the generation is 0), a ringbuffer section *)
(* with the record of ring 0 (unless the ring is NoRing), a registers      *)
(* section with one pair line for each register, in the order of their     *)
(* indices, and the line kernel: that ended it.                            *)
(***************************************************************************)
RECURSIVE HexNat(_)
\* the natural number n in hexadecimal, as %x prints it
HexNat(n) ==
  IF n < 16 THEN SubSeq(HexDigits, n + 1, n + 1)
  ELSE HexNat(n \div 16) \o SubSeq(HexDigits, (n % 16) + 1, (n % 16) + 1)

\* the four hexadecimal digits of n < 2^16
Hex4(n) ==
  SubSeq(HexDigits, (n \div 4096) + 1, (n \div 4096) + 1)
  \o SubSeq(HexDigits, ((n \div 256) % 16) + 1, ((n \div 256) % 16) + 1)
  \o SubSeq(HexDigits, ((n \div 16) % 16) + 1, ((n \div 16) % 16) + 1)
  \o SubSeq(HexDigits, (n % 16) + 1, (n % 16) + 1)

Hex32(a) == IF a.hi = 0 THEN HexNat(a.lo) ELSE HexNat(a.hi) \o Hex4(a.lo)

\* the pair line that sets register i to the value v
PairLine(i, v) ==
  "  - { offset: " \o HexNat(4 * i) \o ", value: " \o Hex32(v) \o " }\n"

\* the size of the ring r when its data: line was read: the payload has
\* size / 4 words
CmdSizeThen(r) ==
  IF Shr2(r.size) = Len(r.buf.words) THEN r.size
  ELSE U32(4 * Len(r.buf.words))

\* the lines read before the registers: line: the revision: line, the
\* ringbuffer: line with the lines iova:, rptr:, wptr: and size: of the
\* record, its data: line and payload line, and the second size: line of a
\* ring whose size changed after its data: line
CmdLinesBefore(gpu, r) ==
  (IF gpu = Zero32 THEN 0 ELSE 1)
  + (IF r = NoRing THEN 0
     ELSE IF ~r.buf.alloc THEN 5
     ELSE IF CmdSizeThen(r) = r.size THEN 7
     ELSE 8)

\* the lines read when dump_cmdstream() is called
CmdRead(gpu, r, rs) == CmdLinesBefore(gpu, r) + Cardinality(DOMAIN rs) + 2

\* the greatest index the tracker rs holds
LastIndex(rs) == CHOOSE m \in DOMAIN rs : \A i \in DOMAIN rs : i <= m

\* the line handed over last: the last pair line, or the registers: line
CmdCur(gpu, r, rs) ==
  IF DOMAIN rs = {}
  THEN [line |-> "registers:\n", role |-> "top",
        n |-> CmdRead(gpu, r, rs) - 1, echoed |-> TRUE]
  ELSE [line |-> PairLine(LastIndex(rs), rs[LastIndex(rs)]),
        role |-> "body", n |-> CmdRead(gpu, r, rs) - 1, echoed |-> FALSE]

\* the Buffer Regions: the data: line of the ring called add_buffer()
CmdBuffers(r) ==
  IF r.buf.alloc
  THEN add_buffer({}, r.iova, CmdSizeThen(r), r.buf.words)
  ELSE {}

InitCmd ==
  /\ status = "run"
  /\ pc = "dump_cmdstream"
  /\ lastline = "kernel: 5.4.0\n"
  /\ pushedline = "kernel: 5.4.0\n"
  /\ \E g \in CmdGpus : gpu_id = g[1] /\ db = g[2]
  /\ regs \in CmdRegs
  /\ \E r \in CmdRings :
       /\ ringbuffers = [i \in 0..(NumRings - 1) |-> IF i = 0 THEN r ELSE NoRing]
       /\ created = IF r = NoRing THEN {} ELSE {0}
       /\ nread = CmdRead(gpu_id, r, regs)
       /\ cur = CmdCur(gpu_id, r, regs)
       /\ buffers = CmdBuffers(r)
       /\ input = [lines |-> InputLines, max |-> CmdRead(gpu_id, r, regs)]
  /\ id = Zero32
  /\ rb_base = Zero64
  /\ ibs = NoIbs
  /\ ring_id = 0
  /\ nsections = 1
  /\ nends = 1
  /\ ncs = 0
  /\ wasSet = DOMAIN regs
  /\ looked = <<>>
  /\ rec = NoRec
  /\ nhand = 0
  /\ handed = NoHand
  /\ proc = Stdin
  /\ bo = NoBo
  /\ sec = NoSec
  /\ diag = ""
  /\ ret = NoLine
  /\ prevop = <<>>
  /\ consumed = <<>>
  /\ a85 = NoA85

NextCmd ==
  \/ dump_cmdstream
  \/ dump_cmdstream_reset
  \/ dump_cmdstream_ring

SpecCmd == InitCmd /\ [][NextCmd]_vars

(***************************************************************************)
(* The decoder from the state in which decode() calls dump_cmdstream() for *)
(* the first time on an a6xx dump whose ring 0 matches CP_RB_BASE and has  *)
(* words in flight, followed by at most MaxTrackerLines lines of registers *)
(* and registers-gmu sections and revision: lines.                         *)
(***************************************************************************)
TrackerLines ==
  { "revision: 630\n",
    "kernel: 5.4.0\n",
    "registers:\n",
    "registers-gmu:\n",
    "  - { offset: 2000, value: 1000 }\n" }

\* a ring of four words, all of them headers, one word in flight
TrackerRing ==
  [iova |-> RingIova, rptr |-> U32(0), wptr |-> U32(1), size |-> U32(16),
   buf |-> Buf(Fill(4, 0..3))]

\* CP_RB_BASE = 0x1000
TrackerRegs == (RegIndex["CP_RB_BASE"] :> U32(4096))

InitTracker ==
  /\ status = "run"
  /\ pc = "dump_cmdstream"
  /\ lastline = "kernel: 5.4.0\n"
  /\ pushedline = "kernel: 5.4.0\n"
  /\ gpu_id = U32(630)
  /\ db = AllRegNames
  /\ regs = TrackerRegs
  /\ ringbuffers =
       [i \in 0..(NumRings - 1) |-> IF i = 0 THEN TrackerRing ELSE NoRing]
  /\ created = {0}
  /\ nread = CmdRead(gpu_id, TrackerRing, regs)
  /\ cur = CmdCur(gpu_id, TrackerRing, regs)
  /\ buffers = CmdBuffers(TrackerRing)
  /\ input = [lines |-> TrackerLines,
              max |-> CmdRead(gpu_id, TrackerRing, regs) + MaxTrackerLines]
  /\ id = Zero32
  /\ rb_base = Zero64
  /\ ibs = NoIbs
  /\ ring_id = 0
  /\ nsections = 1
  /\ nends = 1
  /\ ncs = 0
  /\ wasSet = DOMAIN regs
  /\ looked = <<>>
  /\ rec = NoRec
  /\ nhand = 0
  /\ handed = NoHand
  /\ proc = Stdin
  /\ bo = NoBo
  /\ sec = NoSec
  /\ diag = ""
  /\ ret = NoLine
  /\ prevop = <<>>
  /\ consumed = <<>>
  /\ a85 = NoA85

NextTracker ==
  \/ decode
  \/ decode_registers
  \/ decode_gmu_registers
  \/ dump_cmdstream
  \/ dump_cmdstream_reset
  \/ dump_cmdstream_ring

SpecTracker == InitTracker /\ [][NextTracker]_vars

(***************************************************************************)
(* The line reader alone, popline() and pushline() being called in any     *)
(* order, at most MaxCalls times.                                          *)
(***************************************************************************)
call_popline ==
  /\ status = "run"
  /\ Len(prevop) < MaxCalls
  /\ \E got \in getline :
       LET p == popline(Reader, got)
       IN  IF p.eof THEN Stop("exit0", Reader)
           ELSE /\ SetReader(p.r)
                /\ ret' = p.line
                /\ prevop' = Append(prevop, "pop")
                /\ consumed' = IF p.r.nread = nread THEN consumed
                               ELSE Append(consumed, got)
                /\ UNCHANGED <<status, pc, decodeVars, csVars, csHist,
                               sectionHist, ioVars, bosVars, echoVars, a85>>

call_pushline ==
  /\ status = "run"
  /\ Len(prevop) < MaxCalls
  /\ LET q == pushline(Reader)
     IN  IF ~q.ok THEN Stop("abort", Reader)
         ELSE /\ SetReader(q.r)
              /\ prevop' = Append(prevop, "push")
              /\ UNCHANGED <<status, pc, decodeVars, csVars, csHist,
                             sectionHist, ioVars, bosVars, echoVars, ret,
                             consumed, a85>>

NextReader == call_popline \/ call_pushline

SpecReader == Init /\ [][NextReader]_vars

(***************************************************************************)
(* Properties.                                                             *)
(***************************************************************************)
\* x mod c for an integer x that may be negative
MathMod(x, c) == ((x % c) + c) % c

\* a dump_cmdstream call that has not yet started is due
RunDue == pc = "dump_cmdstream" /\ status = "run"

\* C1 (as stated): every registers section that is decoded gets its
\* dump_cmdstream run before a later top-level line is dispatched, also when
\* the section is ended by the end of the input.
C1_RunAfterEverySection ==
  /\ pc = "decode" => ncs = nsections
  /\ status = "exit0" => ncs = nsections

\* C1 (amended): a registers section that is ended by an unindented line gets
\* its dump_cmdstream run after its last body line and before the next
\* top-level line is dispatched; a section ended by the end of the input gets
\* none, the process exits with status 0 inside the section.
C1_RunAfterSection ==
  /\ (pc = "decode_registers" \/ RunDue) => ncs = nsections - 1
  /\ ~(pc = "decode_registers" \/ RunDue) => ncs = nsections
  /\ (status = "exit0" /\ ncs # nsections) =>
       (pc = "decode_registers" /\ nends = nsections - 1)

C1_Witness ==
  /\ status = "run"
  /\ pc = "decode"
  /\ nsections = 1
  /\ ncs = 1
  /\ wasSet # {}
  /\ pushedline # NoLine

\* C2 (as stated): dump_cmdstream runs at most once in a decode run.
C2_AtMostOnce == ncs <= 1

\* C2 (amended): dump_cmdstream runs once for every registers section that is
\* ended by an unindented line, hence at most once per registers: header.
C2_OncePerSection ==
  /\ ncs <= nsections
  /\ ncs = nends - (IF RunDue THEN 1 ELSE 0)

C2_Witness == ncs = 2 /\ nsections = 2 /\ nends = 2

\* the ring dump_cmdstream matched last, in the runs from InitCmd
Matched == ringbuffers[0]

\* C3 (as stated): the in-flight count is in [0, C) and equals
\* (wptr - corrected rptr) mod C, for every 32-bit wptr and every C >= 1.
C3_ModularDistance ==
  rec.res = "ok" =>
    /\ rec.cmdszdw >= 0
    /\ rec.cmdszdw < rec.ringszdw
    /\ rec.cmdszdw =
         MathMod(Mod32(Matched.wptr, rec.ringszdw) - rec.rptr, rec.ringszdw)

\* the scenario of C4: revision 630, rptr = 100, wptr = 140, 1024 bytes
Scenario ==
  /\ rec.res = "ok"
  /\ gpu_id = U32(630)
  /\ Matched.size = U32(1024)
  /\ Matched.rptr = U32(100)
  /\ Matched.wptr = U32(140)

\* C4 (as stated): in the scenario exactly 40 words are handed over; in
\* general the number is (wptr - recorded rptr) mod capacity.
C4_FortyWords ==
  /\ Scenario => handed.cmdszdw = 40
  /\ rec.res = "ok" =>
       handed.cmdszdw =
         MathMod(Mod32(Matched.wptr, rec.ringszdw)
                   - Mod32(Matched.rptr, rec.ringszdw), rec.ringszdw)

\* C4 (amended): in the scenario 140 - s words are handed over, s in 88..100
\* being the corrected read pointer: 40 words exactly when none of the ring
\* words 88..99 is a valid header; in general, for pointers inside the ring,
\* the number is (wptr - corrected rptr) mod capacity.
C4_WordsFromCorrected ==
  /\ Scenario =>
       /\ rec.rptr \in 88..100
       /\ handed.cmdszdw = 140 - rec.rptr
       /\ Len(handed.buf) = handed.cmdszdw
       /\ handed.cmdszdw = 40 <=>
            \A p \in 88..99 : ~valid_header(gpu_id, Matched.buf.words[p + 1])
  /\ ( /\ rec.res = "ok"
       /\ Matched.rptr.hi = 0 /\ Matched.rptr.lo < rec.ringszdw
       /\ Matched.wptr.hi = 0 /\ Matched.wptr.lo < rec.ringszdw ) =>
       /\ Len(handed.buf) = handed.cmdszdw
       /\ handed.cmdszdw = MathMod(Matched.wptr.lo - rec.rptr, rec.ringszdw)

C4_Witness == Scenario /\ nhand = 1 /\ handed.cmdszdw = 47

\* the positions (rptr - 12 + k) mod C, 0 <= k < 12
Window(rptr, ringszdw) ==
  {MathMod(Mod32(rptr, ringszdw) - lookback + k, ringszdw) : k \in 0..(lookback - 1)}

\* C5 (as stated): the header search reads ring words only at the positions
\* (rptr - 12 + k) mod C, every index is in [0, C), and there are at most 12
\* header checks.
C5_ReadsInWindow ==
  rec.res = "ok" =>
    /\ Len(rec.reads) <= lookback
    /\ \A k \in 1..Len(rec.reads) :
         /\ rec.reads[k] >= 0
         /\ rec.reads[k] < rec.ringszdw
         /\ rec.reads[k] \in Window(Matched.rptr, rec.ringszdw)

\* the search examined 12 words and none was a valid header
NoneValid ==
  /\ rec.res = "ok"
  /\ Len(rec.reads) = lookback
  /\ \A k \in 1..lookback :
       ~valid_header(gpu_id, Matched.buf.words[rec.reads[k] + 1])

\* C6 (as stated): when no examined word is a valid header the corrected
\* read pointer is the last position examined.
C6_FallbackLastExamined == NoneValid => rec.rptr = rec.reads[lookback]

\* C6 (amended): when no examined word is a valid header the corrected read
\* pointer is the position after the last one examined, modulo C, which is
\* the recorded read pointer when that lies inside a ring of at least 12
\* words; the count and the copy start from it.
C6_FallbackAfterLast ==
  NoneValid =>
    /\ rec.rptr = (rec.reads[lookback] + 1) % rec.ringszdw
    /\ rec.cmdszdw = in_flight(rec.ringszdw, Matched.wptr, rec.rptr)
    /\ rec.cmdszdw > 0 => rec.from[1] = rec.rptr
    /\ ( /\ rec.ringszdw >= lookback
         /\ Matched.rptr.hi = 0
         /\ Matched.rptr.lo < rec.ringszdw ) => rec.rptr = Matched.rptr.lo

C6_Witness == NoneValid /\ rec.ringszdw = 256 /\ rec.rptr = 100 /\ nhand = 1

\* C7 (as stated): when no ring record has an iova equal to CP_RB_BASE the
\* reconstructor hands nothing to the disassembler and the process goes on.
C7_NoMatchIsBenign ==
  ( /\ pc = "find_ring"
    /\ \A i \in created : ringbuffers[i].iova # rb_base ) =>
    /\ status = "run"
    /\ nhand = 0

\* C8 (as stated): in a dump_cmdstream run the registers are read before the
\* tracker is reset, the reset comes before the ring lookup and before any
\* hand-off to the disassembler, and after the run every register the
\* registers section had set reads 0, whether or not a ring matches.
C8_ReadResetLookup ==
  /\ pc = "reset_regs" =>
       /\ looked = cs_lookups(gpu_id)
       /\ rb_base = regval64(regs, db, gpu_id, "CP_RB_BASE")
       /\ DOMAIN regs = wasSet
       /\ rec = NoRec
       /\ nhand = 0
  /\ pc \in {"find_ring", "decode"} =>
       /\ looked = cs_lookups(gpu_id)
       /\ \A i \in wasSet : reg_val(regs, i) = Zero32
  /\ (rec # NoRec \/ nhand > 0) => pc \in {"find_ring", "decode"}

\* C8: in a dump_cmdstream run the registers are read before the tracker is
\* reset and the reset comes before the ring lookup and before any hand-off
\* to the disassembler; from the reset until the first hand-off, and to the
\* end of a run in which no ring matches, every register the registers
\* section had set reads 0.  After a hand-off the tracker holds what the
\* disassembler stored.
C8_ResetBeforeHandOff ==
  /\ pc = "reset_regs" =>
       /\ looked = cs_lookups(gpu_id)
       /\ rb_base = regval64(regs, db, gpu_id, "CP_RB_BASE")
       /\ DOMAIN regs = wasSet
       /\ rec = NoRec
       /\ nhand = 0
  /\ pc \in {"find_ring", "decode"} =>
       /\ looked = cs_lookups(gpu_id)
       /\ nhand = 0 => \A i \in wasSet : reg_val(regs, i) = Zero32
  /\ (rec # NoRec \/ nhand > 0) => pc \in {"find_ring", "decode"}

\* a run on an a6xx dump that went through every ring and matched none
C8_Witness ==
  /\ pc = "decode"
  /\ status = "run"
  /\ ncs = 1
  /\ nhand = 0
  /\ ring_id = NumRings
  /\ is_a6xx(gpu_id)
  /\ RegIndex["CP_RB_BASE"] \in wasSet
  /\ created # {}

\* the dump supplied a value for every register of the five
Supplied ==
  \A n \in {"CP_RB_BASE", "CP_IB1_BASE", "CP_IB1_REM_SIZE", "CP_IB2_BASE",
            "CP_IB2_REM_SIZE"} : RegIndex[n] \in wasSet

\* C9 (as stated): when the registers section supplied no value for one of
\* the registers the reconstructor needs, the run aborts.
C9_AbortWhenNotSupplied == (ncs = 1 /\ ~Supplied) => status = "abort"

\* C9 (amended): the run aborts exactly when the register database has no
\* register of a name the reconstructor looks up; a register the dump
\* supplied no value for reads as 0 and the reconstruction goes on.
C9_AbortWhenUnknownName ==
  ncs = 1 =>
    /\ status = "abort" <=>
         \E k \in 1..Len(cs_lookups(gpu_id)) : cs_lookups(gpu_id)[k] \notin db
    /\ status = "abort" => pc = "dump_cmdstream"
    /\ (pc = "reset_regs" /\ RegIndex["CP_RB_BASE"] \notin wasSet) =>
         rb_base.lo = Zero32
    /\ (pc = "reset_regs" /\ RegIndex["CP_IB1_REM_SIZE"] \notin wasSet
          /\ ~is_a6xx(gpu_id)) => ibs[1].rem = Zero32

C9_Witness ==
  /\ pc = "find_ring"
  /\ status = "run"
  /\ wasSet = {}
  /\ rb_base = Zero64

\* C10: after pushline() the next popline() returns the line the previous
\* popline() returned and reads nothing; the popline() after that returns
\* the next unread line; a second pushline() without a popline() in between
\* fails the assertion.
C10_Pushback ==
  [][ /\ ( /\ prevop # <<>>
           /\ prevop[Len(prevop)] = "push"
           /\ ret # NoLine
           /\ prevop' = Append(prevop, "pop") ) =>
           /\ ret' = ret
           /\ nread' = nread
           /\ consumed' = consumed
      /\ ( /\ Len(prevop) >= 2
           /\ prevop[Len(prevop) - 1] = "push"
           /\ prevop[Len(prevop)] = "pop"
           /\ prevop' = Append(prevop, "pop") ) =>
           /\ nread' = nread + 1
           /\ consumed' = Append(consumed, ret')
           /\ Len(consumed') = nread'
      /\ ( /\ prevop # <<>>
           /\ prevop[Len(prevop)] = "push"
           /\ lastline # NoLine ) =>
           /\ prevop' # Append(prevop, "push")
           /\ pushedline' # NoLine => pushedline' = pushedline
    ]_vars

C10_Witness ==
  /\ Len(prevop) = 4
  /\ prevop = <<"pop", "push", "pop", "pop">>
  /\ Len(consumed) = 2
  /\ consumed[1] # consumed[2]

(***************************************************************************)
(* The encoder that is the inverse of popline_ascii85(), and the decoder   *)
(* applied to the lines it produces.                                       *)
(***************************************************************************)
\* the character with code n, 32 <= n <= 126 and n # 96
Chr(n) ==
  IF n <= 95 THEN SubSeq(AsciiLow, n - 31, n - 31)
  ELSE SubSeq(AsciiHigh, n - 96, n - 96)

\* quotient and remainder of the 32-bit a by 85
DivMod85(a) ==
  [q |-> [hi |-> a.hi \div 85, lo |-> ((a.hi % 85) * Half + a.lo) \div 85],
   r |-> ((a.hi % 85) * Half + a.lo) % 85]

RECURSIVE Digits85(_, _)
\* the k least significant base-85 digits of a, most significant first
Digits85(a, k) ==
  IF k = 0 THEN <<>>
  ELSE Append(Digits85(DivMod85(a).q, k - 1), DivMod85(a).r)

\* five characters, the digits offset by '!'
EncodeDigits(d) ==
  Chr(33 + d[1]) \o Chr(33 + d[2]) \o Chr(33 + d[3]) \o Chr(33 + d[4])
    \o Chr(33 + d[5])

\* a lone z for a zero word, otherwise the five digits
EncodeWord(w) == IF w = Zero32 THEN "z" ELSE EncodeDigits(Digits85(w, 5))

RECURSIVE EncodeWords(_)
EncodeWords(ws) ==
  IF ws = <<>> THEN "" ELSE EncodeWord(Head(ws)) \o EncodeWords(Tail(ws))

\* the payload line of a dump: indentation, the encoded words, a newline
EncodeLine(ws) == "      " \o EncodeWords(ws) \o "\n"

\* words whose encoding needs no character the model's lines cannot hold
\* (no base-85 digit 63): 0, 1, 84, 85, 0xffffffff, 0x80000000, 0x12345678,
\* 0xdeadbeef
A85Words ==
  {U32(0), U32(1), U32(84), U32(85), [hi |-> 65535, lo |-> 65535],
   [hi |-> 32768, lo |-> 0], [hi |-> 4660, lo |-> 22136],
   [hi |-> 57005, lo |-> 48879]}

RECURSIVE SeqsUpTo(_, _)
\* the sequences over S of length at most n
SeqsUpTo(S, n) ==
  IF n = 0 THEN {<<>>}
  ELSE SeqsUpTo(S, n - 1) \cup
       {Append(q, x) : q \in {p \in SeqsUpTo(S, n - 1) : Len(p) = n - 1}, x \in S}

\* a caller about to decode a payload of a85.words into a85.n words
InitAscii85 ==
  /\ status = "run"
  /\ pc = "encode"
  /\ nread = 0
  /\ lastline = NoLine
  /\ pushedline = NoLine
  /\ gpu_id = Zero32
  /\ db = {}
  /\ regs = NoRegs
  /\ ringbuffers = [i \in 0..(NumRings - 1) |-> NoRing]
  /\ id = Zero32
  /\ rb_base = Zero64
  /\ ibs = NoIbs
  /\ ring_id = 0
  /\ nsections = 0
  /\ nends = 0
  /\ ncs = 0
  /\ created = {}
  /\ wasSet = {}
  /\ looked = <<>>
  /\ rec = NoRec
  /\ nhand = 0
  /\ handed = NoHand
  /\ input = [lines |-> {}, max |-> 0]
  /\ proc = Stdin
  /\ bo = NoBo
  /\ sec = NoSec
  /\ buffers = {}
  /\ cur = NoCur
  /\ diag = ""
  /\ ret = NoLine
  /\ prevop = <<>>
  /\ consumed = <<>>
  /\ \E ws \in SeqsUpTo(A85Words, MaxWords), n \in 0..MaxWords :
       a85 = [NoA85 EXCEPT !.n = n, !.words = ws]

\* the encoder writes the payload line to the input
encode ==
  /\ status = "run"
  /\ pc = "encode"
  /\ a85' = [a85 EXCEPT !.line = EncodeLine(a85.words)]
  /\ input' = [lines |-> {EncodeLine(a85.words)}, max |-> 1]
  /\ pc' = "popline_ascii85"
  /\ UNCHANGED <<status, readerVars, decodeVars, csVars, csHist, sectionHist,
                 proc, bosVars, echoVars, ret, prevop, consumed>>

\* the outcome d of popline_ascii85(a85.n)
ascii85_call(d) ==
  /\ a85' = [a85 EXCEPT !.res = d.res, !.buf = d.buf]
  /\ SetReader(d.r)
  /\ pc' = "ascii85_done"
  /\ status' \in CASE d.res = "eof" -> {"exit0"}
                  [] d.res = "abort" -> {"abort"}
                  [] d.res = "ub" -> {"signal", "undefined"}
                  [] d.res = "ok" -> {"run"}
  /\ UNCHANGED <<decodeVars, csVars, csHist, sectionHist, ioVars, bosVars,
                 echoVars, ret, prevop, consumed>>

call_popline_ascii85 ==
  /\ status = "run"
  /\ pc = "popline_ascii85"
  /\ \E got \in getline : ascii85_call(popline_ascii85(Reader, got, U32(a85.n)))

NextAscii85 == encode \/ call_popline_ascii85

SpecAscii85 == InitAscii85 /\ [][NextAscii85]_vars

\* the payload line as the last line of an input that does not end in a
\* newline: getline() delivers it without one
LastLine(ws) == "      " \o EncodeWords(ws)

encode_last ==
  /\ status = "run"
  /\ pc = "encode"
  /\ a85' = [a85 EXCEPT !.line = LastLine(a85.words)]
  /\ input' = [lines |-> {LastLine(a85.words)}, max |-> 1]
  /\ pc' = "popline_ascii85"
  /\ UNCHANGED <<status, readerVars, decodeVars, csVars, csHist, sectionHist,
                 proc, bosVars, echoVars, ret, prevop, consumed>>

NextLastLine == encode_last \/ call_popline_ascii85

SpecLastLine == InitAscii85 /\ [][NextLastLine]_vars

(***************************************************************************)
(* main(): the options are parsed one by one, the pager is opened when     *)
(* the output is a terminal, and decode() runs.  proc.argv holds the       *)
(* options not parsed yet; an option is f with a file that fopen() can or  *)
(* cannot open, h, or one of the flags a, c, m, s, v.                      *)
(***************************************************************************)
MainOptions ==
  {[opt |-> "f", file |-> "readable"], [opt |-> "f", file |-> "unopenable"],
   [opt |-> "h", file |-> ""], [opt |-> "v", file |-> ""]}

\* fopen(optarg, "r")
fopen(file) == IF file = "readable" THEN "file" ELSE "NULL"

InitMain ==
  /\ status = "run"
  /\ pc = "main"
  /\ nread = 0
  /\ lastline = NoLine
  /\ pushedline = NoLine
  /\ gpu_id = Zero32
  /\ db = {}
  /\ regs = NoRegs
  /\ ringbuffers = [i \in 0..(NumRings - 1) |-> NoRing]
  /\ id = Zero32
  /\ rb_base = Zero64
  /\ ibs = NoIbs
  /\ ring_id = 0
  /\ nsections = 0
  /\ nends = 0
  /\ ncs = 0
  /\ created = {}
  /\ wasSet = {}
  /\ looked = <<>>
  /\ rec = NoRec
  /\ nhand = 0
  /\ handed = NoHand
  /\ input = [lines |-> SectionLines, max |-> MaxMainLines]
  /\ \E argv \in SeqsUpTo(MainOptions, MaxArgs), tty \in BOOLEAN :
       proc = [in |-> "stdin", interactive |-> tty, pager |-> FALSE,
               argv |-> argv]
  /\ bo = NoBo
  /\ sec = NoSec
  /\ buffers = {}
  /\ cur = NoCur
  /\ diag = ""
  /\ ret = NoLine
  /\ prevop = <<>>
  /\ consumed = <<>>
  /\ a85 = NoA85

\* one iteration of the getopt_long loop on the option o
main_option(o) ==
  /\ status' = IF o.opt = "h" THEN "exit2" ELSE status
  /\ proc' = [proc EXCEPT !.argv = Tail(@),
                          !.in = IF o.opt = "f" THEN fopen(o.file) ELSE @]

main_getopt ==
  /\ status = "run"
  /\ pc = "main"
  /\ proc.argv # <<>>
  /\ main_option(Head(proc.argv))
  /\ UNCHANGED <<pc, readerVars, decodeVars, csVars, csHist, sectionHist,
                 harnessVars, input, bosVars, echoVars>>

\* after the last option: pager_open() when interactive, then decode()
main_pager ==
  /\ status = "run"
  /\ pc = "main"
  /\ proc.argv = <<>>
  /\ proc' = [proc EXCEPT !.pager = proc.interactive]
  /\ pc' = "decode"
  /\ UNCHANGED <<status, readerVars, decodeVars, csVars, csHist, sectionHist,
                 harnessVars, input, bosVars, echoVars>>

NextMain == main_getopt \/ main_pager \/ NextSections

SpecMain == InitMain /\ [][NextMain]_vars

(***************************************************************************)
(* Inputs made of a ringbuffer section whose records carry ids inside and  *)
(* outside the ring table.                                                 *)
(***************************************************************************)
RingLines ==
  { "ringbuffer:\n",
    "kernel: 5.4.0\n",
    "  - id: 4\n",
    "  - id: 5\n",
    "  - id: -1\n",
    "  - id: 9223372036854775808\n",
    "    iova: 1000\n",
    "    size: 8\n",
    "    data: !!ascii85 |\n",
    "      zz\n" }

InitRing ==
  /\ status = "run"
  /\ pc = "decode"
  /\ nread = 0
  /\ lastline = NoLine
  /\ pushedline = NoLine
  /\ gpu_id = Zero32
  /\ db = {}
  /\ regs = NoRegs
  /\ ringbuffers = [i \in 0..(NumRings - 1) |-> NoRing]
  /\ id = Zero32
  /\ rb_base = Zero64
  /\ ibs = NoIbs
  /\ ring_id = 0
  /\ nsections = 0
  /\ nends = 0
  /\ ncs = 0
  /\ created = {}
  /\ wasSet = {}
  /\ looked = <<>>
  /\ rec = NoRec
  /\ nhand = 0
  /\ handed = NoHand
  /\ input = [lines |-> RingLines, max |-> MaxRingLines]
  /\ proc = Stdin
  /\ bo = NoBo
  /\ sec = NoSec
  /\ buffers = {}
  /\ cur = NoCur
  /\ diag = ""
  /\ ret = NoLine
  /\ prevop = <<>>
  /\ consumed = <<>>
  /\ a85 = NoA85

NextRing == decode \/ decode_ringbuffer \/ ringbuffer_data

SpecRing == InitRing /\ [][NextRing]_vars

(***************************************************************************)
(* The decoder on an input of indexed-registers records, of at most        *)
(* MaxSeqLines lines.                                                      *)
(***************************************************************************)
SeqStatLines ==
  { "indexed-registers:\n",
    "kernel: 5.4.0\n",
    "  - regs-name: CP_SEQ_STAT\n",
    "  - regs-name: CP_ROQ\n",
    "    dwords: 2\n",
    "    data: !!ascii85 |\n",
    "      zz\n",
    "      \n" }

InitSeqStat ==
  /\ status = "run"
  /\ pc = "decode"
  /\ nread = 0
  /\ lastline = NoLine
  /\ pushedline = NoLine
  /\ gpu_id = Zero32
  /\ db = {}
  /\ regs = NoRegs
  /\ ringbuffers = [i \in 0..(NumRings - 1) |-> NoRing]
  /\ id = Zero32
  /\ rb_base = Zero64
  /\ ibs = NoIbs
  /\ ring_id = 0
  /\ nsections = 0
  /\ nends = 0
  /\ ncs = 0
  /\ created = {}
  /\ wasSet = {}
  /\ looked = <<>>
  /\ rec = NoRec
  /\ nhand = 0
  /\ handed = NoHand
  /\ input = [lines |-> SeqStatLines, max |-> MaxSeqLines]
  /\ proc = Stdin
  /\ bo = NoBo
  /\ sec = NoSec
  /\ buffers = {}
  /\ cur = NoCur
  /\ diag = ""
  /\ ret = NoLine
  /\ prevop = <<>>
  /\ consumed = <<>>
  /\ a85 = NoA85

NextSeqStat == decode \/ decode_indexed_registers \/ indexed_registers_data

SpecSeqStat == InitSeqStat /\ [][NextSeqStat]_vars

(***************************************************************************)
(* Properties of the section decoders.                                     *)
(***************************************************************************)
\* the loops of the section decoders, and the reads of their payload lines
SectionPcs ==
  {"decode_bos", "decode_ringbuffer", "decode_registers",
   "decode_gmu_registers", "decode_clusters", "decode_indexed_registers",
   "decode_shader_blocks", "decode_debugbus"}

DataPcs ==
  {"bos_data", "ringbuffer_data", "indexed_registers_data",
   "shader_blocks_data", "debugbus_data"}

CmdPcs == {"dump_cmdstream", "reset_regs", "find_ring"}

Indented(line) == At(line, 1) = " "

\* C11 (as stated): a line L that does not begin with a space and is read
\* after a section header and k indented lines is always the next line the
\* top-level loop receives: the run never ends with L read and not
\* dispatched.
C11_NextTopLevel ==
  ( /\ lastline # NoLine
    /\ ~Indented(lastline)
    /\ ~(cur.role = "top" /\ cur.line = lastline /\ cur.n = nread) ) =>
    status = "run"

\* what is handed over is the last line read, unless that line waits in the
\* pushback slot for the top-level loop
C11_InOrder ==
  /\ cur.n = nread - (IF pushedline # NoLine THEN 1 ELSE 0)
  /\ (pushedline # NoLine) =>
       (/\ pushedline = lastline
        /\ ~Indented(pushedline)
        /\ pc \in {"decode"} \cup CmdPcs)
  /\ (cur.role \in {"body", "marker"}) => Indented(cur.line)
  /\ (cur.role = "payload" /\ ~Indented(cur.line)) => (status = "abort")
  /\ (cur.n >= 1 /\ pushedline = NoLine) => (cur.line = lastline)

\* one step of the decoder, as far as the hand-over of lines goes
C11_HandOver ==
  /\ (cur' # cur) =>
       (/\ cur'.n = cur.n + 1
        /\ cur'.line = lastline'
        /\ (cur'.role = "top") <=> (pc = "decode")
        /\ (cur'.role = "top") => cur'.echoed
        /\ (cur'.role = "payload") <=> (pc \in DataPcs))
  /\ (pushedline # NoLine /\ pc = "decode") =>
       (/\ cur'.line = pushedline
        /\ cur'.role = "top"
        /\ cur'.n = cur.n + 1
        /\ nread' = nread
        /\ pushedline' = NoLine)
  /\ (pc \in SectionPcs /\ nread' = nread + 1 /\ ~Indented(lastline')) =>
       (/\ pushedline' = lastline'
        /\ cur' = cur
        /\ status' = "run"
        /\ pc' = IF pc = "decode_registers" THEN "dump_cmdstream"
                 ELSE "decode")
  /\ (pc \in SectionPcs /\ nread' = nread + 1 /\ Indented(lastline')) =>
       (/\ cur'.line = lastline'
        /\ cur'.role \in {"body", "marker"}
        /\ pushedline' = NoLine
        /\ pc' \in {pc} \cup DataPcs)

\* C11 (amended): the lines are handed over one by one in input order, the
\* indented lines a section loop reads to the body of that loop; a line L
\* that does not begin with a space and is read by a section loop is pushed
\* back, handed to nothing else, and is the next line the top-level loop
\* receives, echoed and dispatched once and without a further read, after
\* dump_cmdstream in the case of the registers section.  A line read after a
\* data: marker is taken as the payload whatever it begins with, and fails
\* the assertion of popline_ascii85 when it does not begin with a space.
C11_PushedBackOnce == []C11_InOrder /\ [][C11_HandOver]_vars

\* bos:, two field lines, and the unindented line dispatched by decode()
C11_Witness ==
  /\ status = "run"
  /\ pc = "decode"
  /\ nread = 4
  /\ cur = [line |-> "kernel: 5.4.0\n", role |-> "top", n |-> 4, echoed |-> TRUE]
  /\ bo.size = U32(8)
  /\ bo.iova # Zero64
  /\ pushedline = NoLine

ReadPcs == {"decode"} \cup SectionPcs \cup DataPcs

\* the state of the decoder apart from the status of the process
C12_Frame ==
  <<pc, nread, lastline, pushedline, decodeVars, bosVars, echoVars, csVars,
    sectionHist>>

\* a step that reads at the end of the input exits with status 0 and touches
\* nothing; status 0 is reached in no other way
C12_Read ==
  /\ status = "run"
  /\ (pc \in ReadPcs /\ pushedline = NoLine /\ nread' = nread) =>
       (status' = "exit0" /\ C12_Frame' = C12_Frame)
  /\ (status' = "exit0") =>
       (pc \in ReadPcs /\ pushedline = NoLine /\ C12_Frame' = C12_Frame)
  /\ (status' # "run") => (pc' = pc)

\* C12: at whichever read the input is exhausted (top-level loop, section
\* body, payload line after a data: marker) the process exits with status 0
\* at that read, processes no further line and takes no further step; the
\* decode loop has no other way to end with status 0.
C12_ExitAtEnd == [][C12_Read]_vars

\* the input ended where the payload of a bos record was expected
C12_Witness ==
  /\ status = "exit0"
  /\ pc = "bos_data"
  /\ cur.role = "marker"
  /\ cur.n = nread
  /\ buffers = {}

\* the words of a zero-initialised buffer of n words after ws was stored
Stored(ws, n) == [k \in 1..n |-> IF k <= Len(ws) THEN ws[k] ELSE Zero32]

\* C13: decoding with popline_ascii85(N) the line the inverse encoder
\* produces for N words (a lone z for a zero word, otherwise the five
\* base-85 digits offset by '!') succeeds and yields the N words in order.
C13_RoundTrip ==
  (pc = "ascii85_done" /\ a85.res # "eof" /\ a85.n = Len(a85.words)) =>
    (a85.res = "ok" /\ a85.buf = a85.words /\ status = "run")

\* 0xffffffff and a zero word, encoded as s8W-! and z, are decoded again
C13_Witness ==
  /\ pc = "ascii85_done"
  /\ a85.n = 2
  /\ a85.words = <<[hi |-> 65535, lo |-> 65535], Zero32>>
  /\ a85.line = "      s8W-!z\n"
  /\ a85.res = "ok"
  /\ a85.buf = a85.words

\* C14: popline_ascii85(N) stores at most N words in its N-word buffer,
\* whatever the length of the payload line: a payload of more than N words is
\* decoded without a store past the end of the buffer.
C14_WithinBuffer ==
  (pc = "ascii85_done" /\ Len(a85.words) > a85.n) =>
    (a85.res \in {"ok", "eof"} /\ Len(a85.buf) <= a85.n)

\* the pattern of the body lines of registers and registers-gmu: two
\* conversions
PairPattern == "  - { offset: %x, value: %x }"

\* a step of decode_registers or decode_gmu_registers on a body line: the
\* run ends with status 1 and the pattern as diagnostic exactly when the
\* line does not yield the two fields of the pattern
C15_PairOrExit ==
  ( /\ pc \in {"decode_registers", "decode_gmu_registers"}
    /\ nread' = nread + 1
    /\ Indented(lastline') ) =>
    IF vsscanf(lastline', PairPattern).n # 2
    THEN /\ status' = "exit1"
         /\ diag' = PairPattern
         /\ cur'.line = lastline'
         /\ regs' = regs
         /\ pc' = pc
    ELSE status' = "run" /\ diag' = diag

\* status 1 is the exit of parseline: the diagnostic names a pattern whose
\* number of conversions the last line handed over did not yield
C15_Diagnosed ==
  IF status = "exit1"
  THEN /\ diag # ""
       /\ cur.n >= 1
       /\ ~parseline(cur.line, diag).ok
  ELSE diag = ""

\* C15: parseline ends the process with a non-zero status and a diagnostic
\* naming the expected pattern when the line does not yield as many fields
\* as the pattern has conversions; every body line of a registers or
\* registers-gmu section that is not an offset/value pair ends the run.
C15_ParseError == []C15_Diagnosed /\ [][C15_PairOrExit]_vars

\* a bos field line in the body of a registers section
C15_Witness ==
  /\ status = "exit1"
  /\ pc = "decode_registers"
  /\ diag = PairPattern
  /\ cur.line = "  - iova: 1000\n"
  /\ cur.role = "body"
  /\ regs = NoRegs

\* C16: in the bos section the payload of a record is not reached without a
\* size: line since the record's - iova: line: the data: line of such a
\* record ends the run with a fatal parse error, and no Buffer Region is
\* registered with size 0.
C16_SizeRequired ==
  /\ (pc = "bos_data" /\ ~bo.sized) => (status = "exit1")
  /\ \A b \in buffers : b.size # Zero32

\* the start of the known field lines of the section decoder at pc p
FieldKeys(p) ==
  CASE p = "decode_bos" -> {"  - iova:", "    size:"}
    [] p = "decode_ringbuffer" ->
         {"  - id:", "    iova:", "    rptr:", "    wptr:", "    size:"}
    [] p = "decode_indexed_registers" -> {"  - regs-name:", "    dwords:"}
    [] p = "decode_shader_blocks" -> {"  - type:", "      size:"}
    [] p = "decode_debugbus" -> {"  - debugbus-block:", "    count:"}
    [] p = "decode_clusters" -> {"  - cluster-name:", "    - context:"}
    [] OTHER -> {}

KnownField(p, line) == \E k \in FieldKeys(p) : startswith(line, k)

\* the pattern of the register lines of a clusters section
ClusterPattern == "      - { offset: %x, value: %x }"

\* the pattern every other body line must match in the section at pc p
PairOf(p) == IF p = "decode_clusters" THEN ClusterPattern ELSE PairPattern

PairPcs == {"decode_registers", "decode_gmu_registers", "decode_clusters"}

\* the line handed over last did not end the run: the decoder reads on, or
\* found the end of the input at its next read
GoesOn == status \in {"run", "exit0"}

\* C17 (as stated): in every section decoder a body line that is neither a
\* known field line (for the register sections: an offset/value pair) nor a
\* data: marker is written to the output and the section goes on.
C17_EchoUnknown ==
  ( /\ cur.role = "body"
    /\ pc \in SectionPcs
    /\ ~KnownField(pc, cur.line)
    /\ ~startswith(cur.line, "    data: !!ascii85 |")
    /\ ~(pc \in PairPcs /\ vsscanf(cur.line, PairOf(pc)).n = 2) ) =>
    (cur.echoed /\ GoesOn)

\* C17 (amended): in bos, ringbuffer, indexed-registers, shader-blocks and
\* debugbus a body line that is neither a known field line nor a data:
\* marker is echoed and the section goes on, and a known field line is
\* echoed when it parses; in registers, registers-gmu and clusters a body
\* line is never echoed (clusters echoes its cluster-name and context
\* lines): it is parsed as an offset/value pair and ends the run with
\* status 1 when it is not one.  A data: marker line and its payload line
\* are never echoed; every top-level line is.
C17_EchoOrParse ==
  /\ (cur.role \in {"marker", "payload"}) => ~cur.echoed
  /\ (cur.role = "top") => cur.echoed
  /\ (cur.role = "body" /\ pc \in SectionPcs \ PairPcs) =>
       IF KnownField(pc, cur.line)
       THEN cur.echoed <=> GoesOn
       ELSE cur.echoed /\ GoesOn
  /\ (cur.role = "body" /\ pc \in PairPcs) =>
       IF KnownField(pc, cur.line)
       THEN cur.echoed /\ GoesOn
       ELSE /\ ~cur.echoed
            /\ GoesOn <=> (vsscanf(cur.line, PairOf(pc)).n = 2)
            /\ ~GoesOn => (status = "exit1" /\ diag = PairOf(pc))

\* a line of another section in the body of bos: echoed, bos goes on
C17_Witness ==
  /\ status = "run"
  /\ pc = "decode_bos"
  /\ cur.role = "body"
  /\ cur.line = "  - cluster-name: X\n"
  /\ cur.echoed
  /\ cur.n = 3

\* the tracker after the offset/value pair v was stored at index offset/4
PairStored(v) == reg_set(regs, Shr2(v.vals[1]), v.vals[2])

\* one step of the decoder, as far as the tracker and the start of the
\* reconstructor go
C18_Tracker ==
  /\ (pc = "decode_gmu_registers") =>
       /\ regs' = regs
       /\ ncs' = ncs
       /\ pc' \in {"decode_gmu_registers", "decode"}
  /\ (pc' = "dump_cmdstream" /\ pc # "dump_cmdstream") =>
       (pc = "decode_registers")
  /\ (regs' # regs) =>
       \/ /\ pc = "decode_registers"
          /\ cur'.role = "body"
          /\ vsscanf(cur'.line, PairPattern).n = 2
          /\ regs' = PairStored(vsscanf(cur'.line, PairPattern))
       \/ /\ pc = "reset_regs"
          /\ regs' = NoRegs

\* C18 (as stated): decoding a registers-gmu section leaves the Register
\* State Tracker unchanged and never starts the reconstructor; across a
\* whole run the tracker is modified only by the body lines of a registers
\* section, which set index offset/4, and by the reset of the reconstructor.
C18_GmuApart == [][C18_Tracker]_vars

\* the step hands a buffer of at least one word to dump_commands()
HandOff ==
  /\ pc = "find_ring"
  /\ nhand' = nhand + 1
  /\ handed'.cmdszdw > 0

\* the step decodes a revision: line, which calls cffdec_init()
RevisionLine ==
  /\ pc = "decode"
  /\ cur'.role = "top"
  /\ startswith(cur'.line, "revision:")

\* one step of the decoder: outside the calls of dump_commands() and
\* cffdec_init() the tracker changes only by a pair line of a registers
\* section and by the reset
C18_TrackerOwn ==
  /\ (pc = "decode_gmu_registers") =>
       /\ regs' = regs
       /\ ncs' = ncs
       /\ pc' \in {"decode_gmu_registers", "decode"}
  /\ (pc' = "dump_cmdstream" /\ pc # "dump_cmdstream") =>
       (pc = "decode_registers")
  /\ (regs' # regs /\ ~HandOff /\ ~RevisionLine) =>
       \/ /\ pc = "decode_registers"
          /\ cur'.role = "body"
          /\ vsscanf(cur'.line, PairPattern).n = 2
          /\ regs' = PairStored(vsscanf(cur'.line, PairPattern))
       \/ /\ pc = "reset_regs"
          /\ regs' = NoRegs

\* C18: decoding a registers-gmu section leaves the Register State Tracker
\* unchanged and never starts the reconstructor; the decoder itself modifies
\* the tracker only by the body lines of a registers section, which set
\* index offset/4, and by the reset of the reconstructor.  Besides these the
\* tracker changes only inside the disassembler, when a buffer is handed to
\* it, and inside cffdec_init(), on a revision: line.
C18_GmuApartOwn == [][C18_TrackerOwn]_vars

\* a pair of a registers-gmu section was decoded after the reconstructor
\* handed a buffer over: the tracker is as the disassembler left it
C18_Witness ==
  /\ status = "run"
  /\ pc = "decode_gmu_registers"
  /\ cur.role = "body"
  /\ cur.line = "  - { offset: 2000, value: 1000 }\n"
  /\ ncs = 1
  /\ nhand = 1
  /\ handed.cmdszdw > 0
  /\ wasSet # {}
  /\ regs = reg_set(NoRegs, RegIndex["CP_RB_BASE"], U32(1))

\* C19: when the file given with -f cannot be opened the program ends at
\* startup: it is never past the option parsing with an unopened input, the
\* pager is not opened and no line is read.
C19_OpenOrFatal ==
  (proc.in = "NULL") => (pc = "main" /\ ~proc.pager /\ nread = 0)

\* C20: for a matched ring of capacity C, corrected start s and in-flight
\* count n, the buffer handed to the disassembler has exactly n words, its
\* word i is ring[(s + i) mod C] for 0 <= i < n, and every ring index the
\* copy reads lies in 0 .. C - 1.
C20_LinearCopy ==
  /\ (rec.res # "none" /\ rec.ringszdw > 0) =>
       /\ Len(rec.from) \in {0, rec.cmdszdw}
       /\ \A k \in 1..Len(rec.from) :
            /\ rec.from[k] \in 0..(rec.ringszdw - 1)
            /\ rec.from[k] = (rec.rptr + (k - 1)) % rec.ringszdw
  /\ (rec.res = "ok") =>
       /\ nhand >= 1
       /\ handed.cmdszdw = rec.cmdszdw
       /\ Len(handed.buf) = rec.cmdszdw
       /\ Len(rec.from) = rec.cmdszdw
       /\ \A i \in 0..(rec.cmdszdw - 1) :
            handed.buf[i + 1] =
              Matched.buf.words[((rec.rptr + i) % rec.ringszdw) + 1]

\* a copy that wraps around the end of the ring
C20_Witness ==
  /\ rec.res = "ok"
  /\ nhand = 1
  /\ rec.cmdszdw >= 2
  /\ rec.rptr + rec.cmdszdw > rec.ringszdw
  /\ \E k \in 1..(rec.cmdszdw - 1) :
       rec.from[k] = rec.ringszdw - 1 /\ rec.from[k + 1] = 0
  /\ handed.buf[rec.cmdszdw] = Matched.buf.words[rec.from[rec.cmdszdw] + 1]

\* position k of the lookback window that starts at ring index start
WindowAt(start, k) == (start + k) % rec.ringszdw

\* the word at position k of the window is the first valid header
FirstValidAt(start, k) ==
  /\ valid_header(gpu_id, Matched.buf.words[WindowAt(start, k) + 1])
  /\ \A j \in 0..(k - 1) :
       ~valid_header(gpu_id, Matched.buf.words[WindowAt(start, j) + 1])

\* the corrected read pointer is the first valid header of the window that
\* starts at start
FirstValidFrom(start) ==
  /\ \A k \in 0..(lookback - 1) :
       FirstValidAt(start, k) => rec.rptr = WindowAt(start, k)
  /\ LT32(gpu_id, 500) => rec.rptr = start

\* C21: the corrected read pointer is the first position, scanning forward
\* from (rptr - 12) mod C, whose ring word is a valid header, all earlier
\* positions of the window holding invalid ones; for gpu_id < 500 every
\* word is valid and the corrected pointer is (rptr - 12) mod C.
C21_FirstValidHeader ==
  rec.res = "ok" =>
    FirstValidFrom(MathMod(Mod32(Matched.rptr, rec.ringszdw) - lookback,
                           rec.ringszdw))

\* 600 <= gpu_id < 700
SixHundreds == gpu_id.hi = 0 /\ gpu_id.lo \in 600..699

\* the value the dump left in the register called name
Dumped(name) == reg_val(regs, RegIndex[name])

\* REM_SIZE plus the upper half of STAT, modulo 2^32
Corrected(remName, statName) ==
  Add32(Dumped(remName), [hi |-> 0, lo |-> Dumped(statName).hi])

\* the counts as they stand when the registers have been read and the
\* tracker is not yet reset
C22_Counts ==
  (pc = "reset_regs") =>
    /\ ibs[1].rem = IF SixHundreds
                    THEN Corrected("CP_IB1_REM_SIZE", "CP_CSQ_IB1_STAT")
                    ELSE Dumped("CP_IB1_REM_SIZE")
    /\ ibs[2].rem = IF SixHundreds
                    THEN Corrected("CP_IB2_REM_SIZE", "CP_CSQ_IB2_STAT")
                    ELSE Dumped("CP_IB2_REM_SIZE")
    /\ SixHundreds <=>
         (\E k \in 1..Len(looked) : looked[k] = "CP_CSQ_IB1_STAT")
    /\ SixHundreds <=>
         (\E k \in 1..Len(looked) : looked[k] = "CP_CSQ_IB2_STAT")

\* the counts are written by the register reads of dump_cmdstream alone
C22_Kept == (pc # "dump_cmdstream") => (ibs' = ibs /\ looked' = looked)

\* C22: the IB1 and IB2 remaining-word counts the disassembler gets are
\* CP_IBn_REM_SIZE + (CP_CSQ_IBn_STAT >> 16) modulo 2^32 exactly when
\* 600 <= gpu_id < 700, and CP_IBn_REM_SIZE otherwise, the STAT registers
\* then not being looked up.
C22_RemCounts == []C22_Counts /\ [][C22_Kept]_vars

\* gpu 630, IB1: 32 + (0x00030007 >> 16) = 35, IB2: 0xffffffff + 1 wraps
\* to 0; the buffer was handed over with these counts
C22_Witness ==
  /\ gpu_id = U32(630)
  /\ nhand = 1
  /\ ibs[1].rem = U32(35)
  /\ ibs[2].rem = Zero32
  /\ RegIndex["CP_IB2_REM_SIZE"] \in wasSet

\* the value of a "  - id:" line
IdOf(line) == vsscanf(line, "  - id: %d").vals[1]

\* the value lies in 0 .. 4, read as a signed integer
InTable(v) == v.hi = 0 /\ v.lo \in 0..4

\* the ring table has entries 0 .. 4, only entries a record wrote differ
\* from their initial value, and a - id: line with a value outside 0 .. 4
\* has ended the run by the failed assertion
C23_Table ==
  /\ DOMAIN ringbuffers = 0..4
  /\ created \subseteq 0..4
  /\ \A i \in (0..4) \ created : ringbuffers[i] = NoRing
  /\ (status = "run") => InTable(id)
  /\ ( /\ pc = "decode_ringbuffer"
       /\ cur.role = "body"
       /\ startswith(cur.line, "  - id:") ) =>
       IF InTable(IdOf(cur.line))
       THEN status \in {"run", "exit0"} /\ id = IdOf(cur.line)
       ELSE status = "abort" /\ id = IdOf(cur.line)

\* a step writes the table only at the index of the current record, and the
\* step of a - id: line writes nothing
C23_Write ==
  /\ (ringbuffers' # ringbuffers) =>
       /\ InTable(id)
       /\ id' = id
       /\ \A i \in (0..4) \ {id.lo} : ringbuffers'[i] = ringbuffers[i]
  /\ (id' # id /\ pc = "decode_ringbuffer") =>
       (ringbuffers' = ringbuffers /\ created' = created)

\* C23: the ringbuffer decoder writes descriptor fields only at indices
\* 0 .. 4 of the ring table; a - id: line whose value is outside 0 .. 4,
\* negative values included, fails the assertion before any field of a
\* descriptor is written for that record.
C23_IdInTable == []C23_Table /\ [][C23_Write]_vars

\* a record with id 4 was written, then - id: -1 failed the assertion
C23_Witness ==
  /\ status = "abort"
  /\ pc = "decode_ringbuffer"
  /\ cur.line = "  - id: -1\n"
  /\ id = MaxU32
  /\ created = {4}
  /\ ringbuffers[4].iova # Zero64

\* a line is pending only between the end of a section and the next read of
\* the top-level loop
C24_Pending ==
  /\ (pushedline # NoLine) =>
       (pc \in {"decode"} \cup CmdPcs /\ pushedline = lastline)
  /\ (pc \in SectionPcs \cup DataPcs) => (pushedline = NoLine)

\* pushline is called with nothing pending, getline only with nothing
\* pending, and no step of a section loop ends by the assertion of pushline
\* (an abort there is the assertion on the line handed over in that step)
C24_Push ==
  /\ (pushedline' # pushedline /\ pushedline' # NoLine) =>
       (pushedline = NoLine /\ pc \in SectionPcs /\ status' = "run")
  /\ (nread' # nread) => (pushedline = NoLine)
  /\ (pc \in SectionPcs /\ status' = "abort") =>
       (cur' # cur /\ cur'.role = "body" /\ pushedline' = NoLine)
  /\ (pc \in CmdPcs) => (pushedline' = pushedline)

\* C24: pushline() is only called when no line is pending: its assertion
\* fails in no reachable state of the decoder and at most one line is
\* pending, across section ends, payload reads and the reconstructor run
\* between the end of a section and the next top-level read.
C24_OnePending == []C24_Pending /\ [][C24_Push]_vars

\* the second registers section has ended: its closing line is pending
\* while the reconstructor is about to run a second time
C24_Witness ==
  /\ status = "run"
  /\ pc = "dump_cmdstream"
  /\ nends = 2
  /\ ncs = 1
  /\ pushedline = "kernel: 5.4.0\n"

\* the index of the ring descriptor the reconstructor matched last: the
\* loop variable stays on it when the run ended there
MatchedId == IF rec.res = "ub" THEN ring_id ELSE ring_id - 1

\* C25: whenever the reconstructor matches a ring descriptor against
\* CP_RB_BASE, a ringbuffer record with a payload populated that descriptor
\* and its capacity is at least one word: no division by zero, and the
\* buffer read is not null.
C25_MatchedPopulated ==
  (rec.res # "none") =>
    /\ MatchedId \in created
    /\ ringbuffers[MatchedId].buf.alloc
    /\ rec.ringszdw >= 1
    /\ status \notin {"signal", "undefined"}

\* C26: popline_ascii85 terminates and reads only characters of the line it
\* was given, for every line the Line Reader can return, the last line of
\* an input without a trailing newline included (here for payloads that fit
\* the buffer).
C26_WithinLine ==
  (pc = "ascii85_done" /\ Len(a85.words) <= a85.n) =>
    (a85.res \in {"ok", "eof"} /\ status \in {"run", "exit0"})

\* C27: the decode of an indexed-registers block reads only words inside the
\* block that was decoded for it and never compares an unset block name,
\* for every dwords value and every order of the regs-name:, dwords: and
\* data: lines (here for payloads that fit the block, so that the decode of
\* the payload itself is well defined).
C27_WithinBlock ==
  (/\ pc \in {"indexed_registers_data", "decode_indexed_registers"}
   /\ cur.role = "payload"
   /\ ascii85(cur.line, sec.sizedwords).res = "ok") =>
    status \notin {"signal", "undefined"}

====
